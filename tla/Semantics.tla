------------------------------ MODULE Semantics ------------------------------
(***************************************************************************)
(* What a source program means: the outputs it writes and whether it ends  *)
(* in an error, by recursion over its tree.  This is the specification the *)
(* generated code is compared with; it knows neither symbol table nor      *)
(* addresses nor stack.  A variable is a location of its own that holds a  *)
(* scalar, an array of values or a record of values; an environment is the *)
(* sequence of the scopes around a statement, innermost last, so that a    *)
(* subprogram found in scope d runs in the first d scopes and its own.     *)
(*                                                                         *)
(* What the sources compared do not do is left open: change the bound of a *)
(* for loop or the selector of a case while it is evaluated, and print a   *)
(* boolean.                                                                *)
(***************************************************************************)
EXTENDS RuntimeValue, Ast, SequencesExt

CONSTANTS
  LowerCase,   \* the lower-case spelling of each name
  MaxDepth     \* calls deeper than this are an error

(* state: the locations, what was written, what is left to read, an error, *)
(* and whether a return is under way.                                      *)
Start(in) ==
  [cells |-> << >>, out |-> << >>, in |-> in, err |-> FALSE,
   returning |-> FALSE, result |-> IntegerValue(0)]

Err(st) == [st EXCEPT !.err = TRUE]

Going(st) == ~st.err /\ ~st.returning

ScopeWith(env, name) ==
  {d \in DOMAIN env : LowerCase[name] \in DOMAIN env[d]}

Depth(env, name) == CHOOSE d \in ScopeWith(env, name) : \A e \in ScopeWith(env, name) : e <= d

Find(env, name) == env[Depth(env, name)][LowerCase[name]]

IsBound(env, name) == ScopeWith(env, name) # {}

Bind(env, name, b) ==
  [env EXCEPT ![Len(env)] = (LowerCase[name] :> b) @@ @]

-----------------------------------------------------------------------------
(* Constants and types.                                                    *)

RECURSIVE Constant(_, _)
Constant(env, node) ==
  CASE node.kind \in {"IntLit", "CharLit"} -> IntegerValue(node.value)
    [] node.kind = "BoolLit" -> BooleanValue(node.value)
    [] node.kind = "UnaryOp" /\ node.op = "Minus" ->
         IntegerValue(-Constant(env, node.operand).num)
    [] node.kind = "UnaryOp" -> Constant(env, node.operand)
    [] node.kind = "Var" -> Find(env, node.name).value

Bounds(env, range) == Constant(env, range.low).num .. Constant(env, range.high).num

(* The value a variable of a type starts with.                             *)
ElementTypeOf(type) ==
  IF Len(type.indexTypes) = 1 THEN type.elementType ELSE [type EXCEPT !.indexTypes = Tail(@)]

FieldNames(section) == {LowerCase[n] : n \in ToSet(section.names)}

Fields(type) == UNION {FieldNames(section) : section \in ToSet(type.fields)}

FieldType(type, f) ==
  (CHOOSE section \in ToSet(type.fields) : f \in FieldNames(section)).typeExpr

RECURSIVE Fresh(_, _)
Fresh(env, type) ==
  CASE type.kind = "SimpleType" /\ IsBound(env, type.name) ->
         Fresh(env, Find(env, type.name).type)
    [] type.kind = "ArrayType" ->
         [i \in Bounds(env, Head(type.indexTypes)) |-> Fresh(env, ElementTypeOf(type))]
    [] type.kind = "RecordType" ->
         [f \in Fields(type) |-> Fresh(env, FieldType(type, f))]
    [] OTHER -> IntegerValue(0)

(* The code read expects of a type.                                        *)
TypeCode(env, type) ==
  CASE type.kind # "SimpleType" -> 1
    [] LowerCase[type.name] = "real" -> 2
    [] LowerCase[type.name] = "char" -> 3
    [] LowerCase[type.name] = "boolean" -> 4
    [] LowerCase[type.name] = "string" -> 5
    [] OTHER -> 1

-----------------------------------------------------------------------------
(* A place is a location and the path to a component of what it holds.     *)

RECURSIVE Component(_, _)
Component(v, path) == IF path = << >> THEN v ELSE Component(v[Head(path)], Tail(path))

RECURSIVE Replaced(_, _, _)
Replaced(v, path, new) ==
  IF path = << >> THEN new ELSE [v EXCEPT ![Head(path)] = Replaced(@, Tail(path), new)]

Load(st, place) == Component(st.cells[place.loc], place.path)

Store(st, place, v) ==
  [st EXCEPT !.cells[place.loc] = Replaced(@, place.path, v)]

Allocated(st, v) == [st EXCEPT !.cells = Append(@, v)]

(* Expressions: [st, v]; places: [st, place].                              *)
RECURSIVE Eval(_, _, _, _)
RECURSIVE Place(_, _, _, _)
RECURSIVE Call(_, _, _, _)

Checked(st, bad, v) == [st |-> IF bad THEN Err(st) ELSE st, v |-> IF bad THEN IntegerValue(0) ELSE v]

Quotient(a, b) == Truncated([num |-> IF b < 0 THEN -a ELSE a, den |-> IF b < 0 THEN -b ELSE b])

Operator(op) ==
  CASE op = "Add" -> "ADD" [] op = "Sub" -> "SUB" [] op = "Mul" -> "MUL" [] op = "Mod" -> "MOD"
    [] op = "Div" -> "DIV" [] op = "Eq" -> "EQL" [] op = "Ne" -> "NEQ" [] op = "Lt" -> "LSS"
    [] op = "Le" -> "LEQ" [] op = "Gt" -> "GTR" [] op = "Ge" -> "GEQ"

Combine(st, op, l, r) ==
  CASE op = "And" -> Checked(st, FALSE, BooleanValue(Holds(l) /\ Holds(r)))
    [] op = "Or"  -> Checked(st, FALSE, BooleanValue(Holds(l) \/ Holds(r)))
    [] op = "IntDiv" ->
         Checked(st, r.num = 0, IntegerValue(IF r.num = 0 THEN 0 ELSE Quotient(l.num, r.num)))
    [] op \in RelationalOps -> Checked(st, FALSE, Compare(Operator(op), l, r))
    [] OTHER ->
         IF ArithFault(Operator(op), l, r) THEN Checked(st, TRUE, l)
         ELSE Checked(st, FALSE, Arith(Operator(op), l, r))

Zero == IntegerValue(0)

Unary(o, op) ==
  CASE o.st.err     -> o
    [] op = "Plus"  -> o
    [] op = "Minus" -> Checked(o.st, NegFault(o.v), Negated(o.v))
    [] op = "Not"   -> Checked(o.st, FALSE, BooleanValue(~Holds(o.v)))

Binary(l, op, r) == IF r.st.err THEN r ELSE Combine(r.st, op, l.v, r.v)

Loaded(p) == IF p.st.err THEN [st |-> p.st, v |-> Zero] ELSE [st |-> p.st, v |-> Load(p.st, p.place)]

(* The right operand is evaluated in the state the left one leaves.        *)
RightOperand(l, env, depth, node) == Binary(l, node.op, Eval(l.st, env, depth, node.rhs))

Eval(st, env, depth, node) ==
  IF st.err THEN [st |-> st, v |-> Zero] ELSE
  CASE node.kind \in {"IntLit", "CharLit", "BoolLit"} -> Checked(st, FALSE, Constant(env, node))
    [] node.kind = "StringLit" -> Checked(st, FALSE, StringValue(node.value))
    [] node.kind = "RealLit"   -> Checked(st, FALSE, node.value)
    [] node.kind = "UnaryOp"   -> Unary(Eval(st, env, depth, node.operand), node.op)
    [] node.kind = "BinOp"     ->
         RightOperand(Eval(st, env, depth, node.lhs), env, depth, node)
    [] node.kind = "ProcCall"  -> Call(st, env, depth, node)
    [] node.kind = "Var" /\ Find(env, node.name).is = "constant" ->
         Checked(st, FALSE, Find(env, node.name).value)
    [] OTHER -> Loaded(Place(st, env, depth, node))

Nowhere == [loc |-> 1, path |-> << >>]

(* The component with this index, if there is one.                         *)
Indexed(place, i) ==
  CASE i.st.err -> [st |-> i.st, place |-> Nowhere]
    [] ~i.st.err /\ i.v.num \notin DOMAIN Load(i.st, place) ->
         [st |-> Err(i.st), place |-> Nowhere]
    [] OTHER -> [st |-> i.st, place |-> [place EXCEPT !.path = Append(@, i.v.num)]]

FieldIn(b, field) == [b EXCEPT !.place.path = Append(@, LowerCase[field])]

Place(st, env, depth, node) ==
  CASE node.kind = "Var" -> [st |-> st, place |-> [loc |-> Find(env, node.name).loc, path |-> << >>]]
    [] node.kind = "FieldAccess" -> FieldIn(Place(st, env, depth, node.base), node.field)
    [] node.kind = "ArrayAccess" ->
         FoldLeft(LAMBDA acc, index : Indexed(acc.place, Eval(acc.st, env, depth, index)),
                  Place(st, env, depth, node.base), node.indices)

-----------------------------------------------------------------------------
(* Statements: st.                                                         *)

RECURSIVE Exec(_, _, _, _)

ExecAll(st, env, depth, nodes) ==
  FoldLeft(LAMBDA s, node : IF Going(s) THEN Exec(s, env, depth, node) ELSE s, st, nodes)

Written(e, newline) ==
  IF e.st.err THEN e.st
  ELSE [e.st EXCEPT !.out = Append(@, [text |-> ToText(e.v), newline |-> newline])]

WriteAll(st, env, depth, node, newline) ==
  FoldLeftDomain(LAMBDA s, i : Written(Eval(s, env, depth, node.args[i]),
                                       newline /\ i = Len(node.args)),
                 st, node.args)

(* The type a place was declared with.                                     *)
Named(env, type) ==
  IF type.kind = "SimpleType" /\ IsBound(env, type.name) THEN Find(env, type.name).type ELSE type

RECURSIVE DeclaredType(_, _)
DeclaredType(env, node) ==
  CASE node.kind = "Var"         -> Named(env, Find(env, node.name).type)
    [] node.kind = "ArrayAccess" -> Named(env, DeclaredType(env, node.base).elementType)
    [] node.kind = "FieldAccess" ->
         Named(env, FieldType(DeclaredType(env, node.base), LowerCase[node.field]))

(* What is read: the rest of the line, or the first word of it.            *)
Input(in, wholeLine) == IF wholeLine THEN Head(in) ELSE << Head(Head(in)) >>

LeftOver(in, wholeLine) ==
  IF wholeLine \/ Len(Head(in)) = 1 THEN Tail(in) ELSE << Tail(Head(in)) >> \o Tail(in)

ReadInto(p, code, wholeLine) ==
  CASE p.st.err       -> p.st
    [] p.st.in = << >> -> Err(p.st)
    [] OTHER ->
         IF ReadFault(code, Input(p.st.in, wholeLine)) THEN Err(p.st)
         ELSE [Store(p.st, p.place, ReadResult(code, Input(p.st.in, wholeLine))) EXCEPT
                 !.in = LeftOver(@, wholeLine)]

ReadAll(st, env, depth, node, wholeLine) ==
  FoldLeft(LAMBDA s, target :
             IF s.err THEN s
             ELSE ReadInto(Place(s, env, depth, target),
                           TypeCode(env, DeclaredType(env, target)), wholeLine),
           st, node.args)

RECURSIVE Loop(_, _, _, _, _)

(* The condition has been evaluated.                                       *)
Continued(c, env, depth, node) ==
  IF c.st.err \/ (node.kind = "While" /\ ~Holds(c.v)) \/ (node.kind = "Repeat" /\ Holds(c.v))
  THEN c.st
  ELSE Loop(Exec(c.st, env, depth, node.body), env, depth, node, TRUE)

Loop(st, env, depth, node, tested) ==
  CASE ~Going(st) -> st
    [] Going(st) /\ tested ->
         Continued(Eval(st, env, depth, node.condition), env, depth, node)
    [] OTHER -> Loop(Exec(st, env, depth, node.body), env, depth, node, TRUE)

RECURSIVE Counting(_, _, _, _, _)

Step(node) == IF node.downto THEN -1 ELSE 1

Control(env, node) == [loc |-> Find(env, node.controlVar).loc, path |-> << >>]

(* The body has been executed: the control variable is counted on.         *)
Counted(st, env, depth, node, n) ==
  CASE st.err \/ st.returning    -> st
    [] n + Step(node) \notin Int32 -> Err(st)
    [] OTHER -> Counting(st, env, depth, node, Load(st, Control(env, node)).num + Step(node))

(* The bound has been evaluated, the control variable is n.                *)
Iterated(last, env, depth, node, n) ==
  IF last.st.err \/ (IF node.downto THEN n < last.v.num ELSE n > last.v.num) THEN last.st
  ELSE Counted(Exec(Store(last.st, Control(env, node), IntegerValue(n)), env, depth, node.body),
               env, depth, node, n)

Counting(st, env, depth, node, n) ==
  Iterated(Eval(st, env, depth, node.endExpr), env, depth, node, n)

(* The first branch with a label equal to the selector, if there is one.   *)
Chosen(env, node, v) ==
  SelectSeq(node.branches,
            LAMBDA b : \E l \in ToSet(b.labels) : SameNumber(Constant(env, l), v))

Statement(branches) == IF branches = << >> THEN Nil ELSE Head(branches).statement

(* What the value of an expression is used for, unless it is an error.     *)
Branched(s, env, depth, node) ==
  IF s.st.err THEN s.st ELSE Exec(s.st, env, depth, Statement(Chosen(env, node, s.v)))

Tested(c, env, depth, node) ==
  IF c.st.err THEN c.st
  ELSE Exec(c.st, env, depth, IF Holds(c.v) THEN node.thenStmt ELSE node.elseStmt)

Started(s, env, depth, node) ==
  IF s.st.err THEN s.st ELSE Counting(s.st, env, depth, node, s.v.num)

Returned(r) == IF r.st.err THEN r.st ELSE [r.st EXCEPT !.returning = TRUE, !.result = r.v]

StoredAt(p, v) == IF p.st.err THEN p.st ELSE Store(p.st, p.place, v)

Assigned(v, env, depth, node) ==
  IF v.st.err THEN v.st ELSE StoredAt(Place(v.st, env, depth, node.target), v.v)

Exec(st, env, depth, node) ==
  IF ~Going(st) THEN st ELSE
  CASE node.kind = "Nil"      -> st
    [] node.kind = "Compound" -> ExecAll(st, env, depth, node.statements)
    [] node.kind = "Assign"   -> Assigned(Eval(st, env, depth, node.value), env, depth, node)
    [] node.kind = "Return"   -> Returned(Eval(st, env, depth, node.value))
    [] node.kind = "If"       -> Tested(Eval(st, env, depth, node.condition), env, depth, node)
    [] node.kind \in {"While", "Repeat"} -> Loop(st, env, depth, node, node.kind = "While")
    [] node.kind = "For"      -> Started(Eval(st, env, depth, node.startExpr), env, depth, node)
    [] node.kind = "Case"     -> Branched(Eval(st, env, depth, node.selector), env, depth, node)
    [] node.kind = "ProcCall" -> Call(st, env, depth, node).st

-----------------------------------------------------------------------------
(* Declarations and calls.                                                 *)

Declared(acc, d) ==
  CASE d.kind = "ConstDecl" ->
         [acc EXCEPT !.env = Bind(acc.env, d.name, [is |-> "constant", value |-> Constant(acc.env, d.value)])]
    [] d.kind = "TypeDecl" ->
         [acc EXCEPT !.env = Bind(acc.env, d.name, [is |-> "type", type |-> d.typeExpr])]
    [] d.kind = "VarDecl" ->
         [st  |-> Allocated(acc.st, Fresh(acc.env, d.typeExpr)),
          env |-> Bind(acc.env, d.name, [is |-> "variable", type |-> d.typeExpr,
                                         loc |-> Len(acc.st.cells) + 1])]
    [] OTHER -> [acc EXCEPT !.env = Bind(acc.env, d.name, [is |-> "subprogram", node |-> d])]

RunStatements(ready, depth, node) == ExecAll(ready.st, ready.env, depth, node.statements)

RunBody(st, env, depth, node) ==
  RunStatements(FoldLeft(Declared, [st |-> st, env |-> env], node.declarations), depth, node)

(* Arguments are evaluated from left to right and passed by value.         *)
Evaluated(vs, e) == [st |-> e.st, vs |-> Append(vs, e.v)]

Arguments(st, env, depth, node) ==
  FoldLeft(LAMBDA acc, a : Evaluated(acc.vs, Eval(acc.st, env, depth, a)),
           [st |-> st, vs |-> << >>], node.args)

Passed(args, outer, params) ==
  FoldLeftDomain(LAMBDA acc, i :
                   [st  |-> Allocated(acc.st, args.vs[i]),
                    env |-> Bind(acc.env, params[i].name,
                                 [is |-> "variable", type |-> params[i].typeExpr,
                                  loc |-> Len(acc.st.cells) + 1])],
                 [st |-> args.st, env |-> Append(outer, << >>)], params)

Back(st) == [v |-> st.result, st |-> [st EXCEPT !.returning = FALSE, !.result = Zero]]

Entered(passed, depth, sub) == Back(RunBody(passed.st, passed.env, depth, sub))

CallUser(args, env, depth, node) ==
  IF args.st.err \/ depth >= MaxDepth THEN [v |-> Zero, st |-> Err(args.st)]
  ELSE Entered(Passed(args, SubSeq(env, 1, Depth(env, node.name)),
                      Find(env, node.name).node.params),
               depth + 1, Find(env, node.name).node)

CallBuiltin(st, env, depth, node) ==
  CASE LowerCase[node.name] = "write"   -> WriteAll(st, env, depth, node, FALSE)
    [] LowerCase[node.name] = "writeln" -> WriteAll(st, env, depth, node, TRUE)
    [] LowerCase[node.name] = "read"    -> ReadAll(st, env, depth, node, FALSE)
    [] LowerCase[node.name] = "readln"  -> ReadAll(st, env, depth, node, TRUE)

Call(st, env, depth, node) ==
  IF IsBound(env, node.name) THEN CallUser(Arguments(st, env, depth, node), env, depth, node)
  ELSE [v |-> Zero, st |-> CallBuiltin(st, env, depth, node)]

(* The outputs of a program for an input, and whether it ends in an error. *)
Observed(st) == [out |-> st.out, err |-> st.err]

Predefined ==
  [name \in {"true", "false"} |-> [is |-> "constant", value |-> BooleanValue(name = "true")]]

Meaning(tree, in) == Observed(RunBody(Start(in), << Predefined >>, 0, tree))

=============================================================================
