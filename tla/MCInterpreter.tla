--------------------------- MODULE MCInterpreter ---------------------------
(***************************************************************************)
(* A small machine (IntMax 127, a stack of 16 values) for the interpreter: *)
(* the hand-written programs of test/milestone4/ir scaled to it, the code  *)
(* generator's output for programs of test/milestone4/input, and every     *)
(* program of three instructions from a set chosen to break frames.        *)
(***************************************************************************)
EXTENDS Interpreter

One   == [cls |-> "number", num |-> 1, den |-> 1]
Big   == [cls |-> "number", num |-> 300, den |-> 1]
Huge  == [cls |-> "number", num |-> 3000, den |-> 1]
Half  == [cls |-> "number", num |-> -5, den |-> 2]
True  == [cls |-> "truth", num |-> 1, den |-> 1]
Alpha == [cls |-> "word", num |-> 0, den |-> 1]
Beta  == [cls |-> "word", num |-> 1, den |-> 1]

MCWords == {One, Big, Huge, Half, True, Alpha, Beta}

MCCharCode ==
  [w \in MCWords |-> CASE w = One -> 49 [] w = Big -> 51 [] w = Huge -> 51
                       [] w = Half -> 45 [] w = True -> 116
                       [] w = Alpha -> 97 [] w = Beta -> 98]

(* The order of the texts the programs below compare: numbers before       *)
(* letters, one-digit numbers by value, a prefix before what it starts.    *)
ClassRank(w) == CASE w.cls = "number" -> 0 [] w.cls = "truth" -> 2 [] OTHER -> 1

WordBefore(v, w) ==
  \/ ClassRank(v) < ClassRank(w)
  \/ ClassRank(v) = ClassRank(w) /\ v.num * w.den < w.num * v.den

MCTextBefore(s, t) ==
  \E k \in 0 .. Len(s) :
    /\ k < Len(t)
    /\ k <= Len(s)
    /\ \A j \in 1 .. k : s[j] = t[j]
    /\ k = Len(s) \/ WordBefore(s[k + 1], t[k + 1])

-----------------------------------------------------------------------------

Opr(name) == Instr("OPR", 0, OprNumber(name))
Lit(n) == Instr("LIT", 0, n)
Frame(n) == Instr("INT", 0, n)
Lod(l, n) == Instr("LOD", l, n)
Sto(l, n) == Instr("STO", l, n)
Cal(l, n) == Instr("CAL", l, n)
Ret(l, n) == Instr("RET", l, n)
Jmp(n) == Instr("JMP", 0, n)
Jpc(n) == Instr("JPC", 0, n)
Adr(l, n) == Instr("ADDR", l, n)
Chk(l, n) == Instr("CHK", l, n)
Lodi == Instr("LODI", 0, 0)
Stoi == Instr("STOI", 0, 0)

Code(c) == [code |-> c, strings |-> << >>, reals |-> << >>]

(* test/milestone4/ir *)
IRTests ==
  { Code(<< Frame(3), Lit(127), Lit(1), Opr("ADD"), Ret(0, 0) >>),
    Code(<< Frame(3), Lit(-1), Lodi, Ret(0, 0) >>),
    Code(<< Jmp(99) >>),
    Code(<< Instr("OPR", 99, 2) >>),
    Code(<< Instr("OPR", 0, 99) >>),
    Code(<< Instr("LITS", 0, 9), Ret(0, 0) >>),
    Code(<< Instr("LITR", 0, 9), Ret(0, 0) >>),
    Code(<< Frame(70), Ret(0, 0) >>),
    Code(<< Opr("ADD"), Opr("ADD"), Opr("ADD") >>) }

(* fibonacci of 3: recursion, two results on the operand stack.            *)
Fib == Code(<< Frame(4), Jmp(17), Frame(3),
               Lod(0, -1), Lit(1), Opr("LEQ"), Jpc(9), Lod(0, -1), Ret(1, 1),
               Lod(0, -1), Lit(2), Opr("SUB"), Cal(1, 2),
               Lit(2), Opr("ADD"), Ret(1, 1), Ret(1, 0),
               Lit(3), Cal(0, 2), Sto(0, 3), Lod(0, 3), Opr("WRTLN"), Ret(0, 0) >>)

(* A while loop.                                                           *)
Loop == Code(<< Frame(4), Lit(2), Sto(0, 3), Lod(0, 3), Lit(0), Opr("GTR"), Jpc(14),
                Lod(0, 3), Opr("WRTLN"), Lod(0, 3), Lit(1), Opr("SUB"), Sto(0, 3),
                Jmp(3), Ret(0, 0) >>)

(* An array element, its index read from the input.                        *)
Element == Code(<< Frame(7), Adr(0, 3), Lit(1), Opr("RDI"), Lit(12),
                   Adr(0, 4), Lod(0, 3), Chk(1, 3), Lit(1), Opr("SUB"), Lit(1),
                   Opr("MUL"), Opr("ADD"), Stoi,
                   Adr(0, 4), Lod(0, 3), Chk(1, 3), Lit(1), Opr("SUB"), Opr("ADD"),
                   Lodi, Opr("WRTLN"), Ret(0, 0) >>)

(* Two levels of nesting: the inner procedure counts in a variable of the  *)
(* outer one and calls itself.                                             *)
Nested == Code(<< Frame(4), Jmp(17), Frame(4), Jmp(13), Frame(3),
                  Lod(1, 3), Lit(1), Opr("ADD"), Sto(1, 3),
                  Lod(1, 3), Sto(2, 3), Cal(1, 4), Ret(0, 0),
                  Lit(5), Sto(0, 3), Cal(0, 4), Ret(0, 0),
                  Cal(0, 2), Ret(0, 0) >>)

(* Recursion without an end.                                               *)
Runaway == Code(<< Frame(3), Jmp(5), Frame(3), Cal(1, 2), Ret(0, 0), Cal(0, 2), Ret(0, 0) >>)

(* read and readln of two values of a type, written back.                  *)
ReadTwice(code, op) ==
  Code(<< Frame(5), Adr(0, 3), Lit(code), Opr(op), Adr(0, 4), Lit(code), Opr(op),
          Lod(0, 3), Opr("WRT"), Lod(0, 4), Opr("WRTLN"), Ret(0, 0) >>)

(* Texts, reals and booleans under every operation.                        *)
Mixed(a, b, op) ==
  [code    |-> << Frame(3), a, b, Opr(op), Opr("WRTLN"), Ret(0, 0) >>,
   strings |-> << << Alpha >>, << Beta >>, << Alpha, Beta >> >>,
   reals   |-> << RealValue(-5, 2), RealValue(6, 2), RealValue(900, 1) >>]

Operands == { Lit(-7), Lit(2), Lit(0), Instr("LITB", 0, 1), Instr("LITS", 0, 0),
              Instr("LITS", 0, 2), Instr("LITR", 0, 0), Instr("LITR", 0, 1),
              Instr("LITR", 0, 2), Lit(-128) }

Operations ==
  {Mixed(a, b, op) : a \in Operands, b \in Operands, op \in ArithOps \cup CompareOps \cup {"NEG"}}

(* Programs that overwrite frame headers: the return address of a call,    *)
(* the dynamic link of the main program, a link that points upwards.       *)
Header(slot, value) ==
  Code(<< Jmp(5), Lit(value), Lit(slot), Stoi, Ret(0, 0), Cal(0, 1), Ret(0, 0) >>)

Corrupting == {Header(slot, value) : slot \in 0 .. 6, value \in {-1, 1, 4, 6}}

(* A procedure that stores into the header of its caller's frame, or next  *)
(* to it.                                                                  *)
Trespass(slot, value) ==
  Code(<< Frame(4), Cal(0, 3), Ret(0, 0), Frame(3), Lit(value), Sto(1, slot), Ret(0, 0) >>)

Trespassing == {Trespass(slot, value) : slot \in 0 .. 3, value \in {2, 5}}

(* Every sequence of three of these, called as a procedure.                *)
Breaking ==
  { Lit(-2), Lit(1), Lit(4), Lod(0, -1), Lod(1, 2), Sto(1, 4), Sto(0, 3),
    Cal(0, 2), Cal(1, 1), Ret(0, 1), Ret(1, 0), Lodi, Stoi, Adr(0, -1),
    Jpc(3), Opr("POP"), Opr("SUB") }

Triples ==
  {Code(<< Lit(6), Cal(0, 2), a, b, c, Ret(0, 0) >>) : a, b, c \in Breaking}

MCPrograms ==
  IRTests \cup {Fib, Loop, Element, Nested, Runaway} \cup Operations
    \cup Corrupting \cup Trespassing
    \cup {ReadTwice(code, op) : code \in 1 .. 6, op \in {"RDI", "RDLN"}}
    \cup Triples

(* The callee of a callee of the main program, both declared in it, reads  *)
(* through its static link and past the main program's frame.              *)
Intruder ==
  Code(<< Frame(3), Cal(0, 3), Ret(0, 0),
          Frame(4), Cal(1, 6), Ret(0, 0),
          Frame(3), Lod(1, 6), Opr("WRT"), Ret(0, 0) >>)

MCIntrusion == {Intruder}

MCInputs ==
  { << >>, << << One, Alpha >>, << Half >> >>, << << Half >>, << True >> >>,
    << << Alpha, Beta >>, << Big >>, << Huge >> >> }

=============================================================================
