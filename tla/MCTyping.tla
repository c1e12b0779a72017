------------------------------- MODULE MCTyping -------------------------------
(***************************************************************************)
(* Small programs around one statement, or two, for every combination of   *)
(* operands and operators of a set.  The type checker decides which of     *)
(* them run.                                                               *)
(***************************************************************************)
EXTENDS Typing

Ast == INSTANCE Ast

Number(n) == [cls |-> "number", num |-> n, den |-> 1]
Alpha     == [cls |-> "word", num |-> 0, den |-> 1]

MCWords == {Number(1), Alpha}
MCCharCode == [w \in MCWords |-> IF w = Alpha THEN 97 ELSE 49]
MCTextBefore(s, t) == Len(s) < Len(t)
MCInputs == {<< << Number(1), Number(1) >>, << Number(1) >> >>}

-----------------------------------------------------------------------------
(* Shorthand for trees.                                                    *)

V(n)        == Ast!Var(n)
I(n)        == Ast!IntLit(n)
Half        == Ast!RealLit([kind |-> "Real", num |-> 1, den |-> 2, txt |-> << >>])
Op(o, l, r) == Ast!BinOp(o, l, r)
Let(n, e)   == Ast!Assign(V(n), e)
Do(n, e)    == Ast!ProcCall(n, << e >>)
Block(ss)   == Ast!Compound(ss)
When(e, s)  == Ast!If(e, s, Ast!Nil)
Elem(e)       == Ast!ArrayAccess(V("a"), << e >>)
Count(v, l, h, s) == Ast!For(v, l, h, FALSE, s)

Type(n)     == Ast!SimpleType(n)
Decl(n, t)  == Ast!VarDecl(n, t)
OneToThree  == Ast!Subrange(I(1), I(3))
Param(n, t) == Ast!FormalParam(n, Type(t))

Source(decls, stmts) == Ast!ProgramDecl("p", decls, stmts)

-----------------------------------------------------------------------------
(* One variable of every type, all but j with a value, and a function.     *)

Variables ==
  << Decl("i", Type("integer")), Decl("j", Type("integer")), Decl("b", Type("boolean")),
     Decl("c", Type("char")), Decl("s", Type("string")), Decl("r", Type("real")),
     Decl("k", OneToThree), Decl("a", Ast!ArrayType(<< OneToThree >>, Type("integer"))) >>

Double == Ast!FuncDecl("f", << Param("n", "integer") >>, Type("integer"), << >>,
                       << Ast!Return(Op("Add", V("n"), V("n"))) >>)

Values ==
  << Let("i", I(2)), Let("b", V("true")), Let("c", Ast!CharLit(97)),
     Let("s", Ast!StringLit(<< Alpha, Alpha >>)), Let("r", Half), Let("k", I(3)),
     Ast!Assign(Elem(I(1)), I(1)) >>

Around(stmts) ==
  Source(Variables \o << Double >>,
         Values \o stmts \o << Do("write", V("i")), When(V("b"), Do("write", I(7))) >>)

Whole    == {V("i"), V("k"), I(3)}
Operands == Whole \cup {V("j"), V("b"), V("c"), V("s"), V("r"), Ast!ProcCall("f", << V("i") >>)}

Combined(operands) ==
  operands
    \cup {Ast!UnaryOp(o, x) : o \in {"Minus", "Not"}, x \in operands}
    \cup {Op(o, x, y) : o \in {"Add", "Div", "Mod", "And", "Lt"}, x \in operands, y \in operands}

(* The expression used as a value, a condition, an argument, a label's     *)
(* partner, a bound.                                                       *)
Uses ==
  {<< Let(v, e) >> : v \in {"i", "b"}, e \in Combined(Operands)}
    \cup {<< Let(v, e) >> : v \in {"r", "c", "s", "k"}, e \in Operands}
    \cup {<< When(e, Do("write", I(1))) >> : e \in Operands}
    \cup {<< Let("i", Ast!ProcCall("f", << e >>)) >> : e \in Operands}
    \cup {<< Count("j", e, I(3), Let("i", V("j"))) >> : e \in Operands}
    \cup {<< Ast!Case(e, << Ast!CaseBranch(<< l >>, Do("write", I(1))) >>) >> :
            e \in Operands, l \in {I(2), I(3), Ast!CharLit(97), Ast!BoolLit(TRUE)}}
    \cup {<< Ast!While(e, Block(<< Let("b", Op("Lt", V("i"), V("i"))) >>)) >> : e \in Operands}

(* Indices; those that are Real or not initialized belong to the runs that *)
(* show what happens with them.                                            *)
Indexed ==
  {<< Ast!Assign(Elem(e), I(5)), Let("i", Elem(e)) >> :
     e \in Combined(Whole \cup {V("b"), V("c"), V("s")}) \ {Op("Div", x, y) : x \in Whole, y \in Whole}}

(* j is assigned, or not, before it is used, in the program and as the     *)
(* variable of a procedure.                                                *)
JStatements ==
  {Let("j", I(1)), Let("i", V("j")), Do("read", V("j")),
   Count("j", I(1), I(2), Let("i", V("j"))), Count("i", I(2), V("j"), Let("j", I(1))),
   Ast!Repeat(Block(<< Let("j", I(1)) >>), V("b")),
   Ast!Repeat(Block(<< Let("b", V("true")) >>), Op("Lt", V("j"), I(9)))}

Sequences == {<< x, y >> : x \in JStatements, y \in JStatements}

InProcedure(stmts) ==
  Source(<< Decl("i", Type("integer")), Decl("b", Type("boolean")),
            Ast!ProcDecl("q", << >>, << Decl("j", Type("integer")) >>, stmts) >>,
         << Let("i", I(2)), Let("b", V("true")),
            Ast!ProcCall("q", << >>), Do("write", V("i")) >>)

(* The ways to return from a function.                                     *)
Bodies ==
  LET back  == Ast!Return(I(1))
      other == Let("i", I(3))
      test  == Op("Lt", V("n"), I(2))
      plain == {back, other, Block(<< other, back >>)}
      split == {Ast!If(test, x, y) : x \in plain, y \in plain \cup {Ast!Nil}}
  IN  plain \cup split
        \cup {Ast!If(test, x, y) : x \in split, y \in {back, other}}
        \cup {Block(<< x, y >>) : x \in split, y \in {back, other}}
        \cup {Ast!Repeat(x, Op("Lt", V("n"), I(9))) : x \in plain \cup split}
        \cup {Ast!While(test, Block(<< Let("n", I(3)), x >>)) : x \in plain}

InFunction(body) ==
  Source(<< Decl("i", Type("integer")),
            Ast!FuncDecl("f", << Param("n", "integer") >>, Type("integer"), << >>, << body >>) >>,
         << Let("i", I(0)), Do("write", Ast!ProcCall("f", << I(1) >>)),
            Do("write", Ast!ProcCall("f", << I(2) >>)), Do("write", V("i")) >>)

MCSources ==
  {Around(u) : u \in Uses \cup Indexed \cup Sequences}
    \cup {InProcedure(x) : x \in Sequences} \cup {InFunction(b) : b \in Bodies}

MCNames ==
  {"integer", "real", "char", "boolean", "string", "false", "true", "write", "writeln", "read",
   "readln", "p", "q", "f", "n", "i", "j", "b", "c", "s", "r", "k", "a"}

MCFolded == [n \in MCNames |-> n]

=============================================================================
