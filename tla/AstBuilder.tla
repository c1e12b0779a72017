------------------------------ MODULE AstBuilder ------------------------------
(***************************************************************************)
(* AstBuilder of ast_builder.cpp: from the parser's tree to the syntax     *)
(* tree.  A node of the parser's tree has a label, its children and, where *)
(* it is a token, the token's place; values holds what get_value gives.    *)
(* fn is currentFunctionName_.                                             *)
(***************************************************************************)
EXTENDS Integers, Sequences, SequencesExt

Ast == INSTANCE Ast

VARIABLE values   \* the value of each token

(* Spellings of the two constants; the names that occur.                   *)
TrueNames  == {"true", "TRUE"}
FalseNames == {"false", "FALSE"}

(* The element of a text that stands for a quote.                          *)
Quote == [cls |-> "quote", num |-> 0, den |-> 1]

NoFunction == ""

Child(node, k)    == node.children[k]
LastChild(node)   == node.children[Len(node.children)]
ValueOf(leaf)     == values[leaf.at]
Having(label, node) == SelectSeq(node.children, LAMBDA c : c.label = label)
Names(list)       == [k \in DOMAIN Having("IDENT", list) |-> ValueOf(Having("IDENT", list)[k])]

-----------------------------------------------------------------------------
(* Constants and literals.                                                 *)

(* Two quotes in a row become one, from the left.                          *)
Halved(text) ==
  LET Put(acc, w) ==
        IF w = Quote /\ acc.paired THEN [acc EXCEPT !.paired = FALSE]
        ELSE [out |-> Append(acc.out, w), paired |-> w = Quote]
  IN  FoldLeft(Put, [out |-> << >>, paired |-> FALSE], text).out

IdentConstant(name) ==
  IF name \in TrueNames THEN Ast!BoolLit(TRUE)
  ELSE IF name \in FalseNames THEN Ast!BoolLit(FALSE)
  ELSE Ast!Var(name)

Literal(leaf) ==
  CASE leaf.label = "INTCON"  -> Ast!IntLit(ValueOf(leaf))
    [] leaf.label = "REALCON" -> Ast!RealLit(ValueOf(leaf))
    [] leaf.label = "CHARCON" -> Ast!CharLit(ValueOf(leaf))
    [] leaf.label = "STRING"  -> Ast!StringLit(Halved(ValueOf(leaf)))
    [] leaf.label = "IDENT"   -> IdentConstant(ValueOf(leaf))

Negated(node) ==
  CASE node.kind = "IntLit"  -> Ast!IntLit(-node.value)
    [] node.kind = "RealLit" -> Ast!RealLit(<< -node.value[1], node.value[2] >>)
    [] OTHER -> Ast!UnaryOp("Minus", node)

Constant(node) ==
  IF Child(node, 1).label = "MINUS" THEN Negated(Literal(Child(node, 2)))
  ELSE Literal(LastChild(node))

-----------------------------------------------------------------------------
(* Expressions: operators of one level group to the left; a sign applies   *)
(* to the first term alone.                                                *)

OperatorOf ==
  [PLUS |-> "Add", MINUS |-> "Sub", ORSY |-> "Or", TIMES |-> "Mul", IDIV |-> "IntDiv",
   RDIV |-> "Div", IMOD |-> "Mod", ANDSY |-> "And", EQL |-> "Eq", NEQ |-> "Ne",
   GTR |-> "Gt", GEQ |-> "Ge", LSS |-> "Lt", LEQ |-> "Le"]

OpKind(node) == OperatorOf[Child(node, 1).label]

RECURSIVE Expression(_), SimpleExpression(_), Terms(_, _), Term(_), Factors(_, _),
          Factor(_), Variable(_), Selected(_, _), Call(_)

ExpressionsOf(node) ==
  [k \in DOMAIN Having("Expression", node) |-> Expression(Having("Expression", node)[k])]

Expression(node) ==
  IF Len(node.children) = 1 THEN SimpleExpression(Child(node, 1))
  ELSE Ast!BinOp(OpKind(Child(node, 2)),
                 SimpleExpression(Child(node, 1)), SimpleExpression(Child(node, 3)))

(* The first n children of a simple expression, from the last operator on. *)
Terms(node, n) ==
  CASE n = 1 -> Term(Child(node, 1))
    [] n = 2 -> Ast!UnaryOp(IF Child(node, 1).label = "MINUS" THEN "Minus" ELSE "Plus",
                            Term(Child(node, 2)))
    [] OTHER -> Ast!BinOp(OpKind(Child(node, n - 1)), Terms(node, n - 2), Term(Child(node, n)))

(* Mutant: a sign applies to the whole sum.                                *)
SimpleExpressionSigned(node) ==
  IF Child(node, 1).label \notin {"PLUS", "MINUS"} THEN Terms(node, Len(node.children))
  ELSE Ast!UnaryOp(IF Child(node, 1).label = "MINUS" THEN "Minus" ELSE "Plus",
                   Terms([node EXCEPT !.children = Tail(@)], Len(node.children) - 1))

SimpleExpression(node) == Terms(node, Len(node.children))

Factors(node, n) ==
  IF n = 1 THEN Factor(Child(node, 1))
  ELSE Ast!BinOp(OpKind(Child(node, n - 1)), Factors(node, n - 2), Factor(Child(node, n)))

Term(node) == Factors(node, Len(node.children))

Factor(node) ==
  CASE Child(node, 1).label = "LPARENT"  -> Expression(Child(node, 2))
    [] Child(node, 1).label = "NOTSY"    -> Ast!UnaryOp("Not", Factor(Child(node, 2)))
    [] Child(node, 1).label = "Variable" -> Variable(Child(node, 1))
    [] Child(node, 1).label = "ProcedureFunctionCall" -> Call(Child(node, 1))
    [] OTHER -> Literal(Child(node, 1))

Selected(node, n) ==
  IF n = 1 THEN Ast!Var(ValueOf(Child(node, 1)))
  ELSE LET selector == Child(node, n) IN
       IF Child(selector, 1).label = "LBRACK"
       THEN Ast!ArrayAccess(Selected(node, n - 1), ExpressionsOf(Child(selector, 2)))
       ELSE Ast!FieldAccess(Selected(node, n - 1), ValueOf(Child(selector, 2)))

Variable(node) == Selected(node, Len(node.children))

(* A selected variable as a statement becomes the argument of a call       *)
(* without a name.                                                         *)
Call(node) ==
  IF Child(node, 1).label = "Variable" THEN
    LET var == Variable(Child(node, 1)) IN
    IF var.kind = "Var" THEN Ast!ProcCall(var.name, << >>) ELSE Ast!ProcCall("", << var >>)
  ELSE IF Having("ParameterList", node) = << >> THEN Ast!ProcCall(ValueOf(Child(node, 1)), << >>)
  ELSE Ast!ProcCall(ValueOf(Child(node, 1)), ExpressionsOf(Having("ParameterList", node)[1]))

-----------------------------------------------------------------------------
(* Types.  Of an array's dimensions only ranges are kept.                  *)

RangeOf(node) == Ast!Subrange(Constant(Child(node, 1)), Constant(Child(node, 4)))

RECURSIVE Type(_)

Array(node) ==
  Ast!ArrayType([k \in DOMAIN Having("Range", node) |-> RangeOf(Having("Range", node)[k])],
                Type(LastChild(node)))

FieldPart(node) == Ast!FieldSection(Names(Child(node, 1)), Type(Child(node, 3)))

Record(list) ==
  Ast!RecordType([k \in DOMAIN Having("FieldPart", list) |-> FieldPart(Having("FieldPart", list)[k])])

Type(node) ==
  LET first == Child(node, 1) IN
  CASE first.label = "ArrayType"  -> Array(first)
    [] first.label = "RecordType" -> Record(Child(first, 2))
    [] first.label = "Enumerated" -> Ast!EnumeratedType(Names(Child(first, 2)))
    [] first.label = "Range"      -> RangeOf(first)
    [] OTHER -> Ast!SimpleType(ValueOf(first))

-----------------------------------------------------------------------------
(* Statements.  An assignment to the innermost function's name, as it is   *)
(* spelled in its heading, is a return.                                    *)

Assignment(node, fn) ==
  LET target == Variable(Child(node, 1))
      value == Expression(Child(node, 3))
  IN  IF fn # NoFunction /\ target.kind = "Var" /\ target.name = fn
      THEN Ast!Return(value) ELSE Ast!Assign(target, value)

RECURSIVE Statement(_, _), StatementList(_, _), CaseBlock(_, _)

Compound(node, fn) == Ast!Compound(StatementList(Child(node, 2), fn))

StatementList(list, fn) ==
  LET all == [k \in DOMAIN Having("Statement", list) |-> Statement(Having("Statement", list)[k], fn)]
  IN  SelectSeq(all, LAMBDA s : ~ Ast!IsNil(s))

CaseBlock(node, fn) ==
  Ast!CaseBranch([k \in DOMAIN Having("Constant", node) |-> Constant(Having("Constant", node)[k])],
                 Statement(LastChild(node), fn))

IfStatement(node, fn) ==
  Ast!If(Expression(Child(node, 2)), Statement(Child(node, 4), fn),
         IF Len(node.children) > 4 THEN Statement(Child(node, 6), fn) ELSE Ast!Nil)

CaseStatement(node, fn) ==
  Ast!Case(Expression(Child(node, 2)),
           [k \in DOMAIN Having("CaseBlock", node) |-> CaseBlock(Having("CaseBlock", node)[k], fn)])

RepeatStatement(node, fn) ==
  Ast!Repeat(Ast!Compound(StatementList(Child(node, 2), fn)), Expression(Child(node, 4)))

WhileStatement(node, fn) == Ast!While(Expression(Child(node, 2)), Compound(Child(node, 4), fn))

ForStatement(node, fn) ==
  Ast!For(ValueOf(Child(node, 2)), Expression(Child(node, 4)), Expression(Child(node, 6)),
          Child(node, 5).label = "DOWNTOSY", Compound(Child(node, 8), fn))

Statement(node, fn) ==
  LET inner == Child(node, 1) IN
  CASE inner.label = "AssignmentStatement"   -> Assignment(inner, fn)
    [] inner.label = "ProcedureFunctionCall" -> Call(inner)
    [] inner.label = "CompoundStatement"     -> Compound(inner, fn)
    [] inner.label = "IfStatement"     -> IfStatement(inner, fn)
    [] inner.label = "CaseStatement"   -> CaseStatement(inner, fn)
    [] inner.label = "RepeatStatement" -> RepeatStatement(inner, fn)
    [] inner.label = "WhileStatement"  -> WhileStatement(inner, fn)
    [] inner.label = "ForStatement"    -> ForStatement(inner, fn)
    [] OTHER -> Ast!Nil

-----------------------------------------------------------------------------
(* Declarations.                                                           *)

ParameterGroup(node) ==
  LET type == IF Child(node, 3).label = "ArrayType" THEN Array(Child(node, 3))
              ELSE Ast!SimpleType(ValueOf(Child(node, 3)))
      names == Names(Child(node, 1))
  IN  [k \in DOMAIN names |-> Ast!FormalParam(names[k], type)]

(* The parameters of a heading, none where it has no list.                 *)
ParametersOf(heading) ==
  LET groups == FlattenSeq([k \in DOMAIN Having("FormalParameterList", heading) |->
                              Having("ParameterGroup", Having("FormalParameterList", heading)[k])])
  IN  FlattenSeq([k \in DOMAIN groups |-> ParameterGroup(groups[k])])

VarGroup(list, type) ==
  [k \in DOMAIN Names(list) |-> Ast!VarDecl(Names(list)[k], Type(type))]

(* Groups of four children each: names, colon, type, semicolon.            *)
VarDeclaration(node) ==
  FlattenSeq([g \in 1 .. (Len(node.children) - 1) \div 4 |->
                VarGroup(Child(node, 4 * g - 2), Child(node, 4 * g))])

RECURSIVE DeclarationPart(_, _), Subprogram(_, _)

BodyOf(compound, fn) == StatementList(Child(compound, 2), fn)

Subprogram(node, fn) ==
  LET decl == Child(node, 1)
      heading == Child(decl, 1)
      block == Child(decl, 3)
      name == ValueOf(Child(heading, 2))
  IN  IF decl.label = "ProcedureDeclaration"
      THEN Ast!ProcDecl(name, ParametersOf(heading),
                        DeclarationPart(Child(block, 1), fn), BodyOf(Child(block, 2), fn))
      ELSE Ast!FuncDecl(name, ParametersOf(heading), Ast!SimpleType(ValueOf(LastChild(heading))),
                        DeclarationPart(Child(block, 1), name), BodyOf(Child(block, 2), name))

Definition(node) ==
  IF node.label = "ConstDefinition"
  THEN Ast!ConstDecl(ValueOf(Child(node, 1)), Constant(Child(node, 3)))
  ELSE Ast!TypeDecl(ValueOf(Child(node, 1)), Type(Child(node, 3)))

Section(node, fn) ==
  LET definitions == Having("ConstDefinition", node) \o Having("TypeDefinition", node)
      subprograms == Having("SubprogramDeclaration", node)
  IN  CASE node.label = "VarDeclaration" -> VarDeclaration(node)
        [] node.label = "SubprogramDeclarationPart" ->
             [k \in DOMAIN subprograms |-> Subprogram(subprograms[k], fn)]
        [] OTHER -> [k \in DOMAIN definitions |-> Definition(definitions[k])]

DeclarationPart(node, fn) ==
  FlattenSeq([k \in DOMAIN node.children |-> Section(Child(node, k), fn)])

Build(root) ==
  Ast!ProgramDecl(ValueOf(Child(Child(root, 1), 2)),
                  DeclarationPart(Child(root, 2), NoFunction),
                  BodyOf(Child(root, 3), NoFunction))
=============================================================================
