------------------------------- MODULE Backend -------------------------------
(***************************************************************************)
(* The compiled program in execution: the scope builder's table, the code  *)
(* generator's instructions and the interpreter together.  The interpreter *)
(* is that of module Interpreter; here its programs are those the code     *)
(* generator makes of the sources, and what the sources mean is known.     *)
(***************************************************************************)
EXTENDS Discipline

CONSTANTS
  Names, Folded,   \* the identifiers of the sources
  Sources,         \* the programs to compile: their syntax trees
  MaxDepth         \* the depth of calls no stack has room for

G == INSTANCE CodeGenerator WITH
       OperandRange <- Int32,
       PoolText     <- Text,
       PoolReal     <- {v \in Value : v.kind = "Real"}

K == INSTANCE TypeChecker

S == INSTANCE Semantics WITH LowerCase <- Folded

(* The scope builder, the type checker, which runs even after errors of    *)
(* the former, and the code generator.                                     *)
Built(s)    == K!TypeCheck(G!Build(s))
Accepted(s) == ~G!HasErrors(Built(s))
Compiled(s) == G!Generate(Built(s))

-----------------------------------------------------------------------------
(* The layout of generated code, read off the symbol table.                *)

(* The units by their table index; 0 stands for the main program.          *)
Subprograms(g) == {0} \cup DOMAIN g.entries

EntryAddress(g, i) == IF i = 0 THEN 0 ELSE g.entries[i]

BlockOf(g, i) == IF i = 0 THEN 0 ELSE G!TabAt(g.table, i).ref

(* Where a subprogram is declared: its name, looked up in the block, is it. *)
Declares(g, parent, i) ==
  G!LookupBlockScope(g.table, BlockOf(g, parent), G!TabAt(g.table, i).identifier) = i

(* From a unit out to the main program, by entry addresses; a subprogram's *)
(* table entry is younger than that of the one it is declared in.          *)
Chains(g) ==
  LET chain[i \in Subprograms(g)] ==
        IF i = 0 THEN << 0 >>
        ELSE << g.entries[i] >> \o
               chain[CHOOSE parent \in {k \in Subprograms(g) : k < i} : Declares(g, parent, i)]
  IN  chain

UnitFor(g, i) ==
  [size   |-> g.program.code[EntryAddress(g, i) + 1].operand,
   params |-> G!BTabAt(g.table, BlockOf(g, i)).psze,
   result |-> IF i # 0 /\ G!TabAt(g.table, i).obj = "function" THEN 1 ELSE 0,
   chain  |-> Chains(g)[i]]

UnitsOf(g) ==
  [u \in {EntryAddress(g, i) : i \in Subprograms(g)} |->
     UnitFor(g, CHOOSE i \in Subprograms(g) : EntryAddress(g, i) = u)]

(* A subprogram's code ends where the jump before it leads.                *)
EndOf(g, u) == IF u = 0 THEN Len(g.program.code) ELSE g.program.code[u].operand

OwnersIn(g, units) ==
  [a \in 0 .. Len(g.program.code) - 1 |->
     G!Max({u \in DOMAIN units : u <= a /\ a < EndOf(g, u)})]

(* The operands as the code is read on from a place that has none: behind  *)
(* an assignment, a jump or a return, or at the start of a unit.           *)
OperandsIn(g, units) ==
  LET operands[a \in 0 .. Len(g.program.code) - 1] ==
        IF a \in DOMAIN units \/ g.program.code[a].opcode \in {"STO", "STOI", "JMP", "JPC", "RET"}
        THEN << >>
        ELSE Behind(g.program.code[a], operands[a - 1], units)
  IN  operands

LayoutWith(g, units) ==
  [units |-> units, owner |-> OwnersIn(g, units), operands |-> OperandsIn(g, units)]

LayoutOf(g) == LayoutWith(g, UnitsOf(g))

VARIABLE meaning   \* what the source means for this input: [out, err]

fixed == << layout, meaning >>

allVars == << vars, fixed >>

(* The program of the generator g, ready to run.                           *)
Loaded(g) ==
  /\ program = g.program
  /\ layout = LayoutOf(g)
  /\ Ready

BackendInit ==
  \E s \in Sources :
    /\ Accepted(s) /\ ~Compiled(s).failed
    /\ Loaded(Compiled(s))
    /\ meaning = S!Meaning(s, input)

BackendNext == Next /\ UNCHANGED fixed

BackendExecute == Execute /\ UNCHANGED fixed

BackendSpec == BackendInit /\ [][BackendNext]_allVars

(* The loop of execute goes on as long as it can.                          *)
FairBackendSpec == BackendSpec /\ WF_allVars(BackendExecute)

-----------------------------------------------------------------------------
(* Generated code is such that the interpreter keeps its activations in    *)
(* order (see Discipline): jumps go from one statement to another of the   *)
(* same unit, a call has its arguments and the right static distance, a    *)
(* return removes just these, and every address is one of a variable,      *)
(* whatever the indices.                                                   *)
IsDisciplined == DisciplineSpec

(* The program writes what the source means, in the same order, and stops  *)
(* with an error where, and only where, the source has one.                *)
OutputIsMeaning ==
  /\ Len(output) <= Len(meaning.out)
  /\ output = SubSeq(meaning.out, 1, Len(output))
  /\ status = "halted" => output = meaning.out /\ ~meaning.err
  /\ status = "error"  => output = meaning.out /\ meaning.err
  /\ status # "ran off"

(* A source that ends, or recurses without an end, makes a program that    *)
(* stops.                                                                  *)
Stops == <>(status # "running")

=============================================================================
