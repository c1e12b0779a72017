--------------------------------- MODULE Ast ---------------------------------
(***************************************************************************)
(* The decorated syntax tree (semantic::AstNode and its subclasses).  A    *)
(* node is a record of its kind, its children and the annotations the      *)
(* scope builder fills in.  Positions and the level annotation of nodes    *)
(* other than subprograms, which nothing reads, are left out; faulty says  *)
(* that an error was reported at the node or below it.                     *)
(***************************************************************************)
EXTENDS Integers, Sequences, TLC

NoIndex == -1   \* NO_INDEX

Blank ==
  [tabIdx |-> NoIndex, inferredType |-> "Unknown", typeRef |-> NoIndex, level |-> NoIndex,
   faulty |-> FALSE]

Node(kind, children) == [kind |-> kind] @@ Blank @@ children

(* A child that is not there.                                              *)
Nil == Node("Nil", [none |-> TRUE])

IsNil(node) == node.kind = "Nil"

-----------------------------------------------------------------------------
(* Expressions.  The value of a literal is what the lexer read: an int, a  *)
(* fraction <<num, den>>, the code of a character, a text, a BOOLEAN.      *)

IntLit(n)    == Node("IntLit", [value |-> n])
RealLit(r)   == Node("RealLit", [value |-> r])
CharLit(c)   == Node("CharLit", [value |-> c])
StringLit(s) == Node("StringLit", [value |-> s])
BoolLit(b)   == Node("BoolLit", [value |-> b])

Var(name)             == Node("Var", [name |-> name])
BinOp(op, lhs, rhs)   == Node("BinOp", [op |-> op, lhs |-> lhs, rhs |-> rhs])
UnaryOp(op, operand)  == Node("UnaryOp", [op |-> op, operand |-> operand])
ArrayAccess(base, indices) == Node("ArrayAccess", [base |-> base, indices |-> indices])
FieldAccess(base, field)   == Node("FieldAccess", [base |-> base, field |-> field])

(* A call, of a procedure as a statement or of a function as an operand.   *)
ProcCall(name, args)  == Node("ProcCall", [name |-> name, args |-> args])

BinOpKind ==
  {"Add", "Sub", "Or", "Mul", "Div", "IntDiv", "Mod", "And",
   "Eq", "Ne", "Lt", "Le", "Gt", "Ge"}

RelationalOps == {"Eq", "Ne", "Lt", "Le", "Gt", "Ge"}

UnaryOpKind == {"Plus", "Minus", "Not"}

-----------------------------------------------------------------------------
(* Statements.                                                             *)

Assign(target, value) == Node("Assign", [target |-> target, value |-> value])
Return(value)         == Node("Return", [value |-> value])
If(condition, thenStmt, elseStmt) ==
  Node("If", [condition |-> condition, thenStmt |-> thenStmt, elseStmt |-> elseStmt])
While(condition, body)  == Node("While", [condition |-> condition, body |-> body])
Repeat(body, condition) == Node("Repeat", [body |-> body, condition |-> condition])
For(controlVar, startExpr, endExpr, downto, body) ==
  Node("For", [controlVar |-> controlVar, startExpr |-> startExpr, endExpr |-> endExpr,
               downto |-> downto, body |-> body])
CaseBranch(labels, statement) ==
  Node("CaseBranch", [labels |-> labels, statement |-> statement])
Case(selector, branches) == Node("Case", [selector |-> selector, branches |-> branches])
Compound(statements)     == Node("Compound", [statements |-> statements])

-----------------------------------------------------------------------------
(* Declarations and types.                                                 *)

SimpleType(name)       == Node("SimpleType", [name |-> name])
Subrange(low, high)    == Node("Range", [low |-> low, high |-> high])
ArrayType(indexTypes, elementType) ==
  Node("ArrayType", [indexTypes |-> indexTypes, elementType |-> elementType])
FieldSection(names, typeExpr) == [names |-> names, typeExpr |-> typeExpr]
RecordType(fields)     == Node("RecordType", [fields |-> fields])
EnumeratedType(names)  == Node("EnumeratedType", [identifiers |-> names])

ConstDecl(name, value)    == Node("ConstDecl", [name |-> name, value |-> value])
TypeDecl(name, typeExpr)  == Node("TypeDecl", [name |-> name, typeExpr |-> typeExpr])
VarDecl(name, typeExpr)   == Node("VarDecl", [name |-> name, typeExpr |-> typeExpr])
FormalParam(name, typeExpr) == [name |-> name, typeExpr |-> typeExpr]
ProcDecl(name, params, declarations, statements) ==
  Node("ProcDecl", [name |-> name, params |-> params, returnType |-> Nil,
                    declarations |-> declarations, statements |-> statements])
FuncDecl(name, params, returnType, declarations, statements) ==
  Node("FuncDecl", [name |-> name, params |-> params, returnType |-> returnType,
                    declarations |-> declarations, statements |-> statements])
ProgramDecl(name, declarations, statements) ==
  Node("Program", [name |-> name, declarations |-> declarations, statements |-> statements])

=============================================================================
