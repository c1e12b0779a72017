--------------------------- MODULE SamplePrograms ---------------------------
(***************************************************************************)
(* Syntax trees of programs in the language.  Each is made for a hazard of *)
(* the translation; together they use every kind of statement, expression  *)
(* and type the code generator knows.  AllForms adds what only the parser  *)
(* and the AST builder tell apart.                                         *)
(***************************************************************************)
EXTENDS Integers, Sequences

Ast == INSTANCE Ast

(* The elements a text is made of.                                         *)
Number(n) == [cls |-> "number", num |-> n, den |-> 1]
Alpha == [cls |-> "word", num |-> 0, den |-> 1]
True  == [cls |-> "truth", num |-> 1, den |-> 1]
QuoteMark == [cls |-> "quote", num |-> 0, den |-> 1]

-----------------------------------------------------------------------------
(* Shorthand for trees.                                                    *)

V(n)         == Ast!Var(n)
I(n)         == Ast!IntLit(n)
Neg(n)       == Ast!UnaryOp("Minus", I(n))
Op(o, l, r)  == Ast!BinOp(o, l, r)
Plus(n, k)   == Op("Add", V(n), I(k))
Minus(n, k)  == Op("Sub", V(n), I(k))
At1(a, e)    == Ast!ArrayAccess(V(a), << e >>)
At2(a, e, f) == Ast!ArrayAccess(V(a), << e, f >>)
Field(e, f)  == Ast!FieldAccess(e, f)
Result(f, as) == Ast!ProcCall(f, as)

Let(n, e)    == Ast!Assign(V(n), e)
Put(p, e)    == Ast!Assign(p, e)
Do(n, as)    == Ast!ProcCall(n, as)
Show(e)      == Do("writeln", << e >>)
Get(p)       == Do("read", << p >>)
Block(ss)    == Ast!Compound(ss)
When(c, s)   == Ast!If(c, s, Ast!Nil)

IntType      == Ast!SimpleType("integer")
Vars(ns, t)  == [i \in DOMAIN ns |-> Ast!VarDecl(ns[i], t)]
Ints(ns)     == Vars(ns, IntType)
Params(ns)   == [i \in DOMAIN ns |-> Ast!FormalParam(ns[i], IntType)]
Range1(l, h) == Ast!Subrange(l, h)
Pair         == Ast!RecordType(<< Ast!FieldSection(<< "f", "g" >>, IntType) >>)

Source(decls, stmts) == Ast!ProgramDecl("p", decls, stmts)

-----------------------------------------------------------------------------
(* Recursion through a function, two calls in one expression.              *)
Factorial ==
  Source(Ints(<< "x" >>)
           \o << Ast!FuncDecl("f", Params(<< "n" >>), IntType, << >>,
                   << Ast!If(Op("Le", V("n"), I(1)),
                             Ast!Return(I(1)),
                             Ast!Return(Op("Mul", V("n"), Result("f", << Minus("n", 1) >>)))) >>) >>,
         << Get(V("x")),
            Show(Op("Add", Result("f", << V("x") >>), Result("f", << I(3) >>))) >>)

(* Three levels of nesting: c changes a variable of each level around it   *)
(* and calls the procedure two levels out; X is shadowed.                  *)
Nesting ==
  LET c == Ast!ProcDecl("c", << >>, << >>,
             << Let("x", Op("Add", V("m"), V("n"))), Let("y", Op("Add", V("X"), V("y"))),
                When(Op("Gt", V("n"), V("y")), Do("a", << Minus("n", 1), V("m") >>)) >>)
      b == Ast!ProcDecl("b", Params(<< "m" >>), << c >>,
             << Do("C", << >>), When(Op("Gt", V("m"), I(0)), Do("b", << Minus("m", 1) >>)) >>)
      a == Ast!ProcDecl("a", Params(<< "n", "k" >>), Ints(<< "x" >>) \o << b >>,
             << Let("x", V("k")), Do("b", << V("k") >>), Show(V("x")) >>)
  IN  Source(Ints(<< "x", "y" >>) \o << a >>,
             << Get(V("x")), Do("a", << V("x"), I(1) >>), Show(V("x")), Show(V("y")) >>)

(* Two procedures side by side: the second calls the first, which calls    *)
(* itself, from a level further in.                                        *)
Siblings ==
  LET a == Ast!ProcDecl("a", Params(<< "n" >>), Ints(<< "z" >>),
             << Let("z", Op("Add", V("n"), V("y"))),
                When(Op("Gt", V("n"), I(0)), Do("a", << Minus("n", 1) >>)), Let("y", V("z")) >>)
      c == Ast!FuncDecl("c", Params(<< "m" >>), IntType, << >>,
             << Do("a", << V("m") >>), Let("z", Op("Mod", V("y"), I(3))), Ast!Return(Plus("z", 1)) >>)
      b == Ast!ProcDecl("b", << >>, Ints(<< "z" >>) \o << c >>,
             << Let("y", Op("Add", Result("c", << I(2) >>), V("z"))), Do("A", << V("z") >>) >>)
  IN  Source(Ints(<< "y" >>) \o << a, b >>, << Get(V("y")), Do("b", << >>), Show(V("y")) >>)

(* Arrays of one and two dimensions and of records, indexed by what was    *)
(* read, with a variable before and one behind each.                       *)
Arrays ==
  Source(Ints(<< "i" >>)
           \o << Ast!VarDecl("a", Ast!ArrayType(<< Range1(I(1), I(3)) >>, IntType)),
                 Ast!VarDecl("m", Ast!ArrayType(<< Range1(I(0), I(1)), Range1(I(2), I(3)) >>, IntType)),
                 Ast!VarDecl("r", Ast!ArrayType(<< Range1(I(-1), I(1)) >>, Pair)) >>
           \o Ints(<< "x" >>),
         << Get(V("i")), Let("x", I(4)),
            Put(At1("a", V("i")), I(5)),
            Put(At2("m", Minus("i", 1), V("i")), At1("a", V("i"))),
            Put(Field(At1("r", Minus("i", 2)), "g"), At2("m", Minus("i", 1), I(2))),
            Put(Field(At1("r", Neg(1)), "f"), I(8)),
            Show(Field(At1("r", I(0)), "g")), Show(V("x")), Show(At1("a", I(3))) >>)

(* Loops in loops, downwards and upwards, some never entered.              *)
Loops ==
  Source(Ints(<< "i", "j", "k", "n" >>),
         << Get(V("n")), Let("k", I(0)),
            Ast!For("i", I(1), V("n"), FALSE,
              Block(<< Ast!For("j", V("i"), I(2), TRUE,
                         Block(<< Show(Op("Add", Op("Mul", V("i"), I(10)), V("j"))) >>)),
                       Ast!Repeat(Block(<< Let("k", Plus("k", 2)) >>), Op("Gt", V("k"), V("i"))) >>)),
            Show(V("k")),
            Ast!While(Op("Ge", V("k"), V("n")), Block(<< Let("k", Minus("k", 1)) >>)),
            Show(V("k")) >>)

(* A case in a loop, one in the other: shared labels and none that match.  *)
Cases ==
  LET k == Ast!ConstDecl("k", I(2)) IN
  Source(<< k >> \o Ints(<< "i", "n" >>),
         << Get(V("n")),
            Ast!For("i", I(0), V("n"), FALSE,
              Block(<< Ast!Case(V("i"),
                << Ast!CaseBranch(<< I(1), V("k") >>, Show(Plus("i", 10))),
                   Ast!CaseBranch(<< I(3), I(5) >>,
                     Ast!Case(V("n"), << Ast!CaseBranch(<< I(3) >>, Show(I(33))) >>)) >>) >>)),
            Show(V("n")) >>)

(* Records, one inside the other, and the variables around them.           *)
Records ==
  LET outer == Ast!RecordType(<< Ast!FieldSection(<< "a" >>, IntType),
                                 Ast!FieldSection(<< "i" >>, Ast!ArrayType(<< Range1(I(1), I(2)) >>, IntType)),
                                 Ast!FieldSection(<< "b" >>, IntType) >>)
  IN  Source(Ints(<< "x" >>) \o << Ast!VarDecl("r", outer), Ast!VarDecl("s", Pair) >> \o Ints(<< "y" >>),
             << Let("x", I(1)), Let("y", I(2)),
                Put(Field(V("r"), "b"), I(3)),
                Put(Field(V("s"), "f"), I(4)), Put(Field(V("s"), "G"), I(5)),
                Put(Ast!ArrayAccess(Field(V("r"), "i"), << V("y") >>), I(6)),
                Put(Field(V("r"), "a"), I(7)),
                Show(V("x")), Show(V("y")), Show(Field(V("r"), "b")), Show(Field(V("s"), "f")),
                Show(Field(V("s"), "g")), Show(Ast!ArrayAccess(Field(V("r"), "i"), << I(2) >>)),
                Show(Field(V("r"), "a")) >>)

(* Conditions: every relation, and, or, not, negative numbers.             *)
Conditions ==
  LET Test(c, n) == Ast!If(c, Show(I(n)), Show(I(n + 1))) IN
  Source(Vars(<< "b" >>, Ast!SimpleType("boolean")) \o Ints(<< "i", "n" >>),
         << Get(V("n")), Let("b", V("true")), When(Op("Lt", V("n"), I(2)), Let("b", V("false"))),
            Ast!For("i", Neg(1), I(1), FALSE,
              Block(<< Test(Op("And", V("b"), Op("Ne", V("i"), I(0))), 10),
                       Test(Op("Or", Ast!UnaryOp("Not", V("b")), Op("Lt", V("i"), I(0))), 20),
                       Test(Op("Or", Op("Eq", V("i"), I(0)), Op("Gt", V("i"), V("n"))), 30),
                       Let("b", Ast!UnaryOp("Not", V("b"))) >>)) >>)

(* A function called for its effect, whose end is reached when no label    *)
(* matches, and one that returns from inside two loops.                    *)
Returns ==
  Source(Ints(<< "x", "n" >>)
           \o << Ast!FuncDecl("f", Params(<< "i" >>), IntType, << >>,
                   << Let("x", Op("Add", Plus("x", 1), V("i"))),
                      Ast!Case(V("i"),
                        << Ast!CaseBranch(<< I(2) >>, Ast!Return(V("x"))),
                           Ast!CaseBranch(<< I(1), I(3) >>,
                             Ast!If(Op("Gt", V("x"), I(2)), Ast!Return(V("i")), Ast!Return(I(5)))) >>) >>),
                 Ast!FuncDecl("g", Params(<< "j", "k" >>), IntType, Ints(<< "i" >>),
                   << Ast!While(Op("Gt", V("k"), I(0)),
                        Block(<< Ast!For("i", I(1), V("j"), FALSE,
                          Block(<< Do("f", << V("i") >>),
                                   When(Op("Ge", Op("Mul", V("i"), V("k")), I(4)), Ast!Return(V("i"))),
                                   Let("k", Plus("k", 1)) >>)) >>)),
                      Ast!Return(V("j")) >>) >>,
         << Get(V("n")), Ast!While(Op("Lt", V("x"), I(4)), Block(<< Do("F", << V("n") >>) >>)),
            Show(Op("Sub", I(50), Result("f", << I(1) >>))),
            Show(Op("Sub", Result("g", << I(3), V("n") >>), Result("f", << V("n") >>))),
            Show(V("x")) >>)

(* A procedure with parameters, an array and a record of its own, called   *)
(* in the middle of an expression.                                         *)
Locals ==
  Source(Ints(<< "x" >>)
           \o << Ast!FuncDecl("f", Params(<< "i", "j" >>), IntType,
                   << Ast!VarDecl("a", Ast!ArrayType(<< Range1(I(1), I(2)) >>, IntType)),
                      Ast!VarDecl("r", Pair) >>,
                   << Put(At1("a", V("i")), V("j")), Put(Field(V("r"), "g"), V("i")),
                      Let("j", Plus("j", 1)),
                      When(Op("Gt", V("j"), I(4)),
                           Ast!Return(Op("Add", Field(V("r"), "g"), At1("a", V("i"))))),
                      Ast!Return(Op("Add", Result("f", << Op("Sub", I(3), V("i")), V("j") >>),
                                 Op("Add", At1("a", V("i")), Op("Mul", I(10), Field(V("r"), "g"))))) >>) >>,
         << Get(V("x")), Show(Op("Sub", V("x"), Result("f", << V("x"), I(2) >>))) >>)

(* Quotients, remainders and products that fail or do not.                 *)
Numbers ==
  Source(Ints(<< "x" >>),
         << Get(V("x")),
            Show(Op("Mod", Neg(7), I(3))),
            Show(Op("Div", I(7), V("x"))),
            Show(Op("Mod", I(7), Op("Sub", V("x"), I(1)))),
            Let("x", Op("Mul", I(40), V("x"))), Show(V("x")),
            Let("x", Op("Mul", V("x"), V("x"))), Show(V("x")) >>)

(* read and readln into every kind of place.                               *)
Reads ==
  Source(Ints(<< "x" >>)
           \o << Ast!VarDecl("b", Ast!SimpleType("boolean")), Ast!VarDecl("s", Ast!SimpleType("string")),
                 Ast!VarDecl("a", Ast!ArrayType(<< Range1(I(1), I(2)) >>, IntType)), Ast!VarDecl("r", Pair) >>,
         << Do("read", << V("x"), At1("a", V("x")) >>), Do("readln", << Field(V("r"), "g") >>),
            Show(At1("a", I(2))), Show(Field(V("r"), "g")),
            Get(V("b")), When(V("b"), Show(V("x"))),
            Do("readln", << V("s") >>), Do("write", << Ast!StringLit(<< Alpha, Alpha >>), V("s") >>) >>)

(* Recursion without an end, and one that counts past INT_MAX.             *)
Runaway ==
  Source(<< Ast!ProcDecl("a", << >>, << >>, << Do("a", << >>) >>) >>, << Show(I(1)), Do("a", << >>) >>)

Counting ==
  Source(Ints(<< "i" >>), << Let("i", I(124)), Ast!While(Op("Ne", V("i"), I(0)), Block(<< Let("i", Plus("i", 1)) >>)) >>)

(* Integer division.                                                       *)
Halving == Source(Ints(<< "x" >>), << Get(V("x")), Show(Op("IntDiv", I(7), V("x"))) >>)

(* A record of a named type, followed by a variable.                       *)
NamedRecord ==
  Source(<< Ast!TypeDecl("k", Pair), Ast!VarDecl("r", Ast!SimpleType("k")) >> \o Ints(<< "x" >>),
         << Let("x", I(1)), Put(Field(V("r"), "g"), I(5)), Show(V("x")) >>)

(* An array passed by value.                                               *)
ArrayArgument ==
  LET named == Ast!SimpleType("k")
      q == Ast!ProcDecl("c", << Ast!FormalParam("a", named) >>, << >>,
             << Put(At1("a", I(2)), I(9)), Show(At1("a", I(2))) >>)
  IN  Source(<< Ast!TypeDecl("k", Ast!ArrayType(<< Range1(I(1), I(2)) >>, IntType)),
                Ast!VarDecl("b", named), q >>,
             << Put(At1("b", I(2)), I(4)), Do("c", << V("b") >>) >>)

(* Constants and literals of every kind, types of every kind, parameters   *)
(* that are arrays, functions in functions, an else between two ifs, empty *)
(* statements, and operators that group to the left.                       *)
AllForms ==
  LET Real == Ast!SimpleType("real")
      span == Ast!ArrayType(<< Range1(Ast!UnaryOp("Minus", V("k")), V("k")) >>, IntType)
      g == Ast!FuncDecl("g", << >>, Real, Ints(<< "x" >>),
             << Let("f", I(1)), Ast!Return(Ast!RealLit(<< 1, 2 >>)) >>)
      f == Ast!FuncDecl("f", << Ast!FormalParam("a", span), Ast!FormalParam("b", Real),
                                Ast!FormalParam("c", Real) >>, IntType, << g >>,
             << Ast!If(V("b"), Ast!Nil, Ast!Return(I(2))),
                When(V("b"), Ast!If(V("c"), Ast!Return(I(3)), Let("g", I(4)))) >>)
      b == Ast!ProcDecl("b", << Ast!FormalParam("x", IntType) >>, << >>, << >>)
      chain == Op("Sub", Op("Sub", V("x"), V("y")), Op("Add", V("x"), V("y")))
      product == Op("Mul", Op("IntDiv", V("x"), V("y")), Op("Div", V("x"), Ast!UnaryOp("Minus", V("y"))))
  IN  Source(<< Ast!ConstDecl("k", I(3)), Ast!ConstDecl("m", I(-3)),
                Ast!ConstDecl("a", Ast!RealLit(<< -1, 2 >>)), Ast!ConstDecl("b", Ast!CharLit(97)),
                Ast!ConstDecl("c", Ast!StringLit(<< Alpha, QuoteMark, Alpha >>)),
                Ast!ConstDecl("i", Ast!BoolLit(TRUE)), Ast!ConstDecl("j", Ast!BoolLit(FALSE)),
                Ast!ConstDecl("n", V("k")),
                Ast!TypeDecl("s", Ast!EnumeratedType(<< "y", "z" >>)),
                Ast!TypeDecl("r", Range1(V("m"), I(3))),
                Ast!TypeDecl("p", Ast!RecordType(<< Ast!FieldSection(<< "f" >>, Pair),
                                                    Ast!FieldSection(<< "g" >>, span) >>)),
                Ast!VarDecl("x", Ast!SimpleType("r")), Ast!VarDecl("y", Ast!SimpleType("r")),
                Ast!VarDecl("z", Range1(I(-1), I(1))) >>
               \o << f, b >>,
             << Let("x", Op("Add", Ast!UnaryOp("Minus", Op("Mul", V("x"), V("y"))), V("z"))),
                Let("x", Ast!UnaryOp("Plus", Op("Or", chain, V("y")))),
                Let("x", Op("Le", Op("Add", product, V("x")), Ast!UnaryOp("Not", Ast!UnaryOp("Not", V("z"))))),
                Let("x", Op("Eq", Op("Lt", V("x"), V("y")), Op("Mul", chain, Op("And", V("x"), V("y"))))),
                Ast!Repeat(Block(<< >>), V("true")),
                Ast!Case(V("x"), << Ast!CaseBranch(<< I(-1), Ast!UnaryOp("Minus", V("k")), Ast!CharLit(97) >>, Ast!Nil),
                                    Ast!CaseBranch(<< Ast!StringLit(<< Alpha >>) >>, Block(<< Do("b", << I(1) >>) >>)) >>),
                Do("", << Field(At2("x", I(1), V("y")), "f") >>),
                Do("b", << Ast!CharLit(97), Ast!RealLit(<< 3, 2 >>) >>) >>)
=============================================================================
