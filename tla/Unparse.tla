------------------------------- MODULE Unparse -------------------------------
(***************************************************************************)
(* Reference definition of how a syntax tree is written as a source: the   *)
(* inverse the parser and the AST builder together must undo.  Every tree  *)
(* is written in two styles.  Dense: no parentheses, sections or           *)
(* semicolons more than the tree needs.  Spread (g is TRUE): every operand *)
(* in parentheses, every declaration a section of its own, every optional  *)
(* semicolon and empty list of arguments there.  A token is a record of    *)
(* its type and its value.                                                 *)
(***************************************************************************)
EXTENDS Integers, Sequences, SequencesExt

T(type)     == << [type |-> type, value |-> "none"] >>
L(type, v)  == << [type |-> type, value |-> v] >>
Name(n)     == L("IDENT", n)

(* Some parts, with a separator between them.                              *)
Joined(parts, separator) ==
  FoldLeft(LAMBDA acc, part : IF acc = << >> THEN part ELSE acc \o separator \o part,
           << >>, parts)

NameList(names) == Joined([k \in DOMAIN names |-> Name(names[k])], T("COMMA"))

Optional(g, type) == IF g THEN T(type) ELSE << >>

-----------------------------------------------------------------------------
(* Constants and literals.                                                 *)

ConstantTokens(node) ==
  CASE node.kind = "IntLit" ->
         IF node.value < 0 THEN T("MINUS") \o L("INTCON", -node.value) ELSE L("INTCON", node.value)
    [] node.kind = "RealLit" ->
         IF node.value[1] < 0
         THEN T("MINUS") \o L("REALCON", << -node.value[1], node.value[2] >>)
         ELSE L("REALCON", node.value)
    [] node.kind = "CharLit"   -> L("CHARCON", node.value)
    [] node.kind = "StringLit" -> L("STRING", node.value)
    [] node.kind = "BoolLit"   -> Name(IF node.value THEN "true" ELSE "FALSE")
    [] node.kind = "Var"       -> Name(node.name)
    [] node.kind = "UnaryOp"   -> T("MINUS") \o Name(node.operand.name)

-----------------------------------------------------------------------------
(* Expressions.  An operand whose operator binds more loosely than its     *)
(* place demands is put in parentheses.                                    *)

TokenOf ==
  [Add |-> "PLUS", Sub |-> "MINUS", Or |-> "ORSY", Mul |-> "TIMES", IntDiv |-> "IDIV",
   Div |-> "RDIV", Mod |-> "IMOD", And |-> "ANDSY", Eq |-> "EQL", Ne |-> "NEQ",
   Gt |-> "GTR", Ge |-> "GEQ", Lt |-> "LSS", Le |-> "LEQ"]

Binding(node) ==
  CASE node.kind = "BinOp" /\ node.op \in {"Eq", "Ne", "Gt", "Ge", "Lt", "Le"} -> 0
    [] node.kind = "BinOp" /\ node.op \in {"Add", "Sub", "Or"} -> 1
    [] node.kind = "BinOp" /\ node.op \in {"Mul", "IntDiv", "Div", "Mod", "And"} -> 2
    [] node.kind = "UnaryOp" /\ node.op # "Not" -> 1
    [] OTHER -> 3

RECURSIVE Bare(_, _), Operand(_, _, _), ExpressionList(_, _)

Operand(node, least, g) ==
  IF Binding(node) < least \/ (g /\ node.kind \in {"BinOp", "UnaryOp"})
  THEN T("LPARENT") \o Bare(node, g) \o T("RPARENT") ELSE Bare(node, g)

Bare(node, g) ==
  LET b == Binding(node) IN
  CASE node.kind = "BinOp" ->
         Operand(node.lhs, IF b = 0 THEN 1 ELSE b, g) \o T(TokenOf[node.op]) \o Operand(node.rhs, b + 1, g)
    [] node.kind = "UnaryOp" ->
         IF node.op = "Not" THEN T("NOTSY") \o Operand(node.operand, 3, g)
         ELSE T(IF node.op = "Minus" THEN "MINUS" ELSE "PLUS") \o Operand(node.operand, 2, g)
    [] node.kind = "ArrayAccess" ->
         Bare(node.base, g) \o T("LBRACK") \o ExpressionList(node.indices, g) \o T("RBRACK")
    [] node.kind = "FieldAccess" -> Bare(node.base, g) \o T("PERIOD") \o Name(node.field)
    [] node.kind = "ProcCall" ->
         Name(node.name) \o T("LPARENT") \o ExpressionList(node.args, g) \o T("RPARENT")
    [] OTHER -> ConstantTokens(node)

ExpressionList(nodes, g) == Joined([k \in DOMAIN nodes |-> Bare(nodes[k], g)], T("COMMA"))

-----------------------------------------------------------------------------
(* Statements.  fn is the innermost function.                              *)

RECURSIVE StatementTokens(_, _, _), ListTokens(_, _, _)

ListTokens(statements, fn, g) ==
  Joined([k \in DOMAIN statements |-> StatementTokens(statements[k], fn, g)], T("SEMICOLON"))
    \o Optional(g /\ statements # << >>, "SEMICOLON")

BlockTokens(statements, fn, g) == T("BEGINSY") \o ListTokens(statements, fn, g) \o T("ENDSY")

ConstantList(nodes) == Joined([k \in DOMAIN nodes |-> ConstantTokens(nodes[k])], T("COMMA"))

Branch(branch, fn, g) ==
  ConstantList(branch.labels) \o T("COLON") \o StatementTokens(branch.statement, fn, g)

StatementTokens(node, fn, g) ==
  CASE node.kind = "Assign" -> Bare(node.target, g) \o T("BECOMES") \o Bare(node.value, g)
    [] node.kind = "Return" -> Name(fn) \o T("BECOMES") \o Bare(node.value, g)
    [] node.kind = "ProcCall" /\ node.name = "" -> Bare(node.args[1], g)
    [] node.kind = "ProcCall" /\ node.name # "" ->
         IF node.args = << >> /\ ~g THEN Name(node.name) ELSE Bare(node, g)
    [] node.kind = "Compound" -> BlockTokens(node.statements, fn, g)
    [] node.kind = "If" ->
         T("IFSY") \o Bare(node.condition, g) \o T("THENSY") \o StatementTokens(node.thenStmt, fn, g)
           \o IF node.elseStmt.kind = "Nil" THEN << >>
              ELSE T("ELSESY") \o StatementTokens(node.elseStmt, fn, g)
    [] node.kind = "While" ->
         T("WHILESY") \o Bare(node.condition, g) \o T("DOSY") \o StatementTokens(node.body, fn, g)
    [] node.kind = "Repeat" ->
         T("REPEATSY") \o ListTokens(node.body.statements, fn, g) \o T("UNTILSY") \o Bare(node.condition, g)
    [] node.kind = "For" ->
         T("FORSY") \o Name(node.controlVar) \o T("BECOMES") \o Bare(node.startExpr, g)
           \o T(IF node.downto THEN "DOWNTOSY" ELSE "TOSY") \o Bare(node.endExpr, g) \o T("DOSY")
           \o StatementTokens(node.body, fn, g)
    [] node.kind = "Case" ->
         T("CASESY") \o Bare(node.selector, g) \o T("OFSY")
           \o Joined([k \in DOMAIN node.branches |-> Branch(node.branches[k], fn, g)], T("SEMICOLON"))
           \o Optional(g, "SEMICOLON") \o T("ENDSY")
    [] node.kind = "Nil" -> << >>

-----------------------------------------------------------------------------
(* Types and declarations.                                                 *)

RangeTokens(node) ==
  ConstantTokens(node.low) \o T("PERIOD") \o T("PERIOD") \o ConstantTokens(node.high)

RECURSIVE TypeTokens(_, _)

TypeTokens(node, g) ==
  CASE node.kind = "SimpleType" -> Name(node.name)
    [] node.kind = "Range" -> RangeTokens(node)
    [] node.kind = "EnumeratedType" -> T("LPARENT") \o NameList(node.identifiers) \o T("RPARENT")
    [] node.kind = "ArrayType" ->
         T("ARRAYSY") \o T("LBRACK")
           \o Joined([k \in DOMAIN node.indexTypes |-> RangeTokens(node.indexTypes[k])], T("COMMA"))
           \o T("RBRACK") \o T("OFSY") \o TypeTokens(node.elementType, g)
    [] node.kind = "RecordType" ->
         T("RECORDSY")
           \o Joined([k \in DOMAIN node.fields |->
                        NameList(node.fields[k].names) \o T("COLON")
                          \o TypeTokens(node.fields[k].typeExpr, g)], T("SEMICOLON"))
           \o Optional(g, "SEMICOLON") \o T("ENDSY")

(* Neighbours of one named type are declared together in the dense style.  *)
SameName(t, u) == IF t.kind = "SimpleType" /\ u.kind = "SimpleType" THEN t.name = u.name ELSE FALSE

Groups(decls, g) ==
  FoldLeft(LAMBDA acc, d :
             IF ~g /\ acc # << >> /\ SameName(acc[Len(acc)].type, d.typeExpr)
             THEN [acc EXCEPT ![Len(acc)].names = Append(@, d.name)]
             ELSE Append(acc, [names |-> << d.name >>, type |-> d.typeExpr]),
           << >>, decls)

GroupList(decls, g) ==
  [k \in DOMAIN Groups(decls, g) |->
     NameList(Groups(decls, g)[k].names) \o T("COLON") \o TypeTokens(Groups(decls, g)[k].type, g)]

ParameterTokens(params, g) ==
  IF params = << >> THEN << >>
  ELSE T("LPARENT") \o Joined(GroupList(params, g), T("SEMICOLON")) \o T("RPARENT")

(* The definitions of one kind: each with its semicolon, and the keyword   *)
(* once, or before each.                                                   *)
SectionTokens(keyword, definitions, g) ==
  LET closed == [k \in DOMAIN definitions |-> definitions[k] \o T("SEMICOLON")] IN
  IF definitions = << >> THEN << >>
  ELSE keyword \o Joined(closed, IF g THEN keyword ELSE << >>)

OfKind(decls, kinds) == SelectSeq(decls, LAMBDA d : d.kind \in kinds)

RECURSIVE DeclarationTokens(_, _, _), SubprogramTokens(_, _, _)

SubprogramTokens(node, fn, g) ==
  LET isFunction == node.kind = "FuncDecl"
      inner == IF isFunction THEN node.name ELSE fn
  IN  T(IF isFunction THEN "FUNCTIONSY" ELSE "PROCEDURESY") \o Name(node.name)
        \o ParameterTokens(node.params, g)
        \o (IF isFunction THEN T("COLON") \o Name(node.returnType.name) ELSE << >>)
        \o T("SEMICOLON") \o DeclarationTokens(node.declarations, inner, g)
        \o BlockTokens(node.statements, inner, g)

DeclarationTokens(decls, fn, g) ==
  LET constants   == OfKind(decls, {"ConstDecl"})
      types       == OfKind(decls, {"TypeDecl"})
      subprograms == OfKind(decls, {"ProcDecl", "FuncDecl"})
  IN  SectionTokens(T("CONSTSY"),
        [k \in DOMAIN constants |->
           Name(constants[k].name) \o T("EQL") \o ConstantTokens(constants[k].value)], g)
      \o SectionTokens(T("TYPESY"),
           [k \in DOMAIN types |->
              Name(types[k].name) \o T("EQL") \o TypeTokens(types[k].typeExpr, g)], g)
      \o SectionTokens(T("VARSY"), GroupList(OfKind(decls, {"VarDecl"}), g), g)
      \o SectionTokens(<< >>,
           [k \in DOMAIN subprograms |-> SubprogramTokens(subprograms[k], fn, g)], FALSE)

Written(program, g) ==
  T("PROGRAMSY") \o Name(program.name) \o T("SEMICOLON")
    \o DeclarationTokens(program.declarations, "", g)
    \o BlockTokens(program.statements, "", g) \o T("PERIOD")
=============================================================================
