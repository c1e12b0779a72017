# Arion compiler: TLA+ verification project

Arion is a compiler for a small Pascal: lexer, parser, AST builder, scope builder, type
checker, code generator and an interpreter for the generated code, one after the other in one
process.  This directory holds TLA+ models of all of these phases and of the command that runs
them, TLC configurations that check them on small instances, and TLAPS proofs of the properties
that hold for every program.

Line references are to `src/src/` unless they say otherwise.

## 1. The system

| component | state it keeps | operations | speaks to |
|---|---|---|---|
| lexer (`lexer/`) | position, current lexeme, automaton state | next token, longest match | parser: token list |
| parser (`parser/`) | token list, position | one function per grammar rule | AST builder: parse tree |
| AST builder (`semantic/ast_builder.cpp`) | name of the innermost function | one function per parse-tree node | scope builder: syntax tree |
| scope builder (`semantic/scope_builder.cpp`) | symbol table, errors | one visit function per node; declares names, computes sizes and addresses, annotates the nodes | symbol table; later phases through the annotations |
| symbol table (`semantic/symbol_table.cpp`) | `tab`, `btab`, `atab`, open scopes, level | insert, lookup (current block / open blocks / one block), pushBlock, popBlock, addArrayType | scope builder writes; type checker and code generator read |
| type checker (`semantic/type_checker.cpp`) | set of initialized variables, current function, mode flags | one visit function per node | annotations; errors stop the compiler |
| code generator (`backend/code_generator.cpp`) | program, current level, entry addresses, parameter counts per level | one function per node; emit, patch | interpreter: instruction program |
| interpreter (`backend/interpreter.cpp`, `backend/stack_machine.cpp`) | program, stack, `bp_`, `ip_`, output, input | one instruction per step | the outside: input lines, output text |
| command line (`main.cpp`) | options, the results of the phases | reads files, runs the phases, prints trees, tables and output | all of the above |

Nothing runs concurrently.  The only state that outlives a command is what it saves in files, on
request, for later commands to read.  What is hard is of another kind:

* **Agreement at a distance.** Addresses, levels and static distances are computed in three
  places (scope builder, code generator, interpreter) at three times and must fit together on a
  stack whose shape depends on the calls made at run time.
* **Long legal sequences.** Blocks opened and closed around chains of declarations; jumps
  patched after nested code; calls in the middle of expressions; recursion from inner levels.
* **A machine that runs any code.** The interpreter is also meant to survive code that is not
  the compiler's (`src/test/milestone4/ir` is a collection of such programs), so its checks
  must keep faulty code from overwriting frames, at the boundaries of `int` and `size_t`
  arithmetic.
* **Static promises about dynamic behaviour.** The type checker's acceptance promises that no
  value of a wrong kind is met, that variables are read after they were assigned, and that
  functions return a value.
* **Text cut into pieces by hand.** The lexer hands characters back and forth between four
  loops and follows a table of 137 states and some 7000 arrows; the parser decides by one to
  three tokens and never goes back; the AST builder finds the parts of a node by position.
* **Files between commands.** Tokens, parse trees and bundles are written for people and read
  back by programs that guess where a value ends, and where a tree does.
* **Limits.** The stack's bound, `int` overflow, loops and lookups that must end.

What makes each component correct:

* lexer: no character is lost or read twice, tokens are the longest possible, errors and tokens
  UNKNOWN go together, it stops;
* parser: it accepts exactly the sentences of its grammar and its tree spells the tokens;
* AST builder: the tree it builds is the one the text was written from;
* command line: a command means the source however many files it came through, and reports
  success only if everything it was asked for is there;
* symbol table: it behaves as nested scopes, its chains end and are disjoint, an entry's level
  is the depth of its block;
* interpreter: values are well-formed, ints stay in 32 bits, the stack stays bounded, returns
  unwind, direct stores do not hit frame headers in reach;
* scope builder and code generator together with the interpreter: frames stay intact, operands
  are balanced, accesses hit the variable meant, the program writes what its source means and
  stops;
* type checker: the three promises above, kept at run time.

`PROJECT.json` lists the hazards at their lines, with the properties that would catch them.

## 2. The modules

```
Automaton ── Lexer ── MCLexer                    Syntax (the rules)
               └ LexerProofs, LexemeProofs          │
                                                    │
Grammar  ⊒  Parser ─┬─ Frontend ── MCFrontend ──────┘
               │    │      │ W
               │  AstBuilder  Unparse, SamplePrograms
               └ ParserProofs
Pipeline ── MCPipeline
   └ PipelineProofs

RuntimeValue ── StackMachine ── Interpreter ── Discipline ── Backend ── Typing
                                   │               │            │ G, K, S     │
InstructionProgram ────────────────┘   DisciplineProofs         │           MCTyping
                                                                ├ MCBackend
SymbolTable ─┬─ Scoping  ⊑  Scopes                              │
             │                                                  │
Ast ─────────┴─ ScopeBuilder ─┬─ CodeGenerator ─────────────────┤ G
     │                        └─ TypeChecker ───────────────────┤ K
     └── Semantics (with RuntimeValue) ─────────────────────────┘ S

InterpreterProofs: proofs about RuntimeValue, StackMachine and Interpreter
ScopingProofs: proofs about Scoping
Induction: lemmas the other proofs rest on
```

**Automaton, Lexer.**  Automaton is the DFA as `config/config_lexer.txt` defines it: a dozen
states for literals, one per operator, one per prefix of a keyword and one for all other
identifiers; `Gap` lists the prefixes in which the table lacks an arrow for one more of their
last letter.  Lexer is `process_next_token`: `mode` says which of its loops runs (the main loop
or one of the `scan_` functions), `held` is the character in `pending` or under
`consume_current`.  One action per branch of the loop, one character per step.  Tokens carry
their place in the input, which no property of the code depends on.

**Syntax, Parser, Grammar.**  Syntax has one rule for each parse function, and for each loop and
optional part of one: alternatives with the tokens looked at and what is read then.  Parser works
off such a table as the functions call each other: `todo` is the stack of what the running
functions have still to read, `building` the nodes of those that have not returned.  Its actions
are the call (`Predict`), `expectNode` and `termNode` (`Match`), `Return`, the exception
(`Throw`) and the end (`Finish`).  A variable at the start of a statement is built before it is
known whose child it is; `Adopting` names the two rules whose node takes it over (`Taking` in
Parser), and `TakingAssumption` says of a table that such a rule always stands behind one that
builds a node, as it does in the code.  **Grammar** is
the abstract specification: derivations of a sentence, any nonterminal first, with no
look-ahead.  Parser implements it (`DerivesTokens`): the consumed tokens followed by `todo` are
at all times a form of a derivation.

**AstBuilder.**  `ast_builder.cpp` as operators on parse trees, one per visit function.
**Unparse** writes a syntax tree as tokens, in a spare and a lavish style (all parentheses,
optional separators, grouped declarations); it is the reference for the round trip and models
no source file.  **SamplePrograms** has fourteen programs of the run `backend` in it and some
more, among them one with every form the syntax has.  **Frontend** composes parser and builder.

**Pipeline.**  `main.cpp`: a command goes through its phases, saves files, shows text and exits;
the next command may read what is on the disk.  Files hold texts as sequences of marks, a mark
being a character or a word the readers look for, so that the readers' cutting of lines can be
modelled as it is: the lines of token and tree files, and the markers a bundle's tree is found by,
which `extractDecoratedAstBundleSection` looks for in the text of the whole file.  A source is
known by its tokens, its tree, the verdict of the later phases, which have modules of their own,
and the lines printed of its AST, its tables and its errors (`Asts`).  What the later phases do
with a tree that lost a part is left open, and so is what is printed of it.  The verdict "endless"
is that of a program that never stops: under `--run` its command stays in `execute`, prints
nothing and does not end.

**RuntimeValue.** `RuntimeValue` of `stack_machine.hpp` and the arithmetic, comparison, text
conversion and input conversion of `interpreter.cpp`.  A value is a record of its kind, a
fraction (the number) and a text.  `IntMax` stands for INT_MAX; every operation the C++ checks
for overflow has a predicate (`ArithFault`) saying when it throws.  A double is an exact
fraction: rounding, and results too small for a double, are left out; results too large are not
(`RealMax`).  A text is a sequence of words of a small set.  An input line is split where the
C++ splits it.

**InstructionProgram.** `Instruction`, `InstructionProgram` and its emit, patch and pools.

**StackMachine.** The bounded stack with C++ indices, `walkStaticChain`, and the two casts
between `int` and `size_t`: `Register` is what `bp_` and `ip_` can hold, `WrapInt` the sum of a
base and an offset in an `int`.

**Interpreter.** The state machine.  `program, stack, bp, ip, output, input, status` are the
members of `Interpreter` and the input stream.  One action per instruction, and for OPR one per
group of operations; its guard is that the instruction does not fault.  `Fault` collects every
condition under which the C++ throws, in `validateInstruction`, in the instruction or in the
stack; `Throw` ends the run then.  After an exception nothing of the machine is read, so Throw
leaves the other variables alone.  `RunOff` is the end of the loop in `execute`.

**SymbolTable.** The class as operators from table to table, with 0-based indices.  The
reserved words that the C++ inserts first are left out: no identifier is spelled like one.

**Scoping** is the table in use: `DeclareIdentifier`, `EnterBlock`, `LeaveBlock`,
`LookupIdentifier`, `LookupIn`, in every order a program can ask for them.  **Scopes** is the
abstract specification: a scope is a function from names to declarations, a name means its
declaration in the innermost open scope that has one, a closed scope never changes.
`ImplementsScopes` is the refinement; the mapping reads each scope off the linked chains.
`answer` holds what was asked together with what was found, so an answer that is right for
another question does not count.

**Ast, ScopeBuilder, TypeChecker, CodeGenerator.** Three passes as operators on trees that
mirror the visit functions: same order of visits, same table updates, same annotations, same
instructions.  An error report is the mark `faulty` on a node, which its parents inherit; an
exception of the generator is the mark `failed`.  Several operators are RECURSIVE.  Texts of
messages and source positions are left out.

**Semantics.** The meaning of a source by recursion over its tree, knowing nothing of tables,
addresses or stack: a variable is a location, an environment a sequence of scopes.  It is the
reference that generated code is compared with, not a model of a source file.  Where the
repository does not say what is meant (a for loop whose bound changes, a case whose selector
changes between labels, a for loop up to INT_MAX) the sources avoid the question or Semantics
follows the code.

**Discipline.** What generated code is like, without the generator: a condition on a program
and a *layout* of it (`Disciplined`).  A layout says of each unit (the main program or a
subprogram, known by the address of its first instruction) its slots, its parameters, whether it
has a result and the units around it, and of each address its unit and the operands that lie on
the stack there, of which no more is known than that one is a number between two bounds, or the
address of a slot some levels out.  `Obeys` is a check of one instruction: its operands are there,
its level and slot exist, what it leaves is what the layout has behind it and at its jump target,
a call has the static distance of the unit it calls, a return removes the parameters and finds
the result alone.  The state machine is the interpreter's, with the layout beside it; the frame
properties are stated here.

**Backend.** The composition.  An initial state picks a source, has it built, checked and
compiled by the three passes, and computes its meaning for the chosen input; the steps are the
interpreter's.  `LayoutOf` reads the layout of the code off the symbol table: units and what is
around them by name lookup, sizes and parameter counts from `btab`, and the operands by reading
the code once from front to back.

**Typing.** Backend with a record of the slots that were given a value.

## 3. The runs

| run | question | size |
|---|---|---|
| `interpreter` | Is the machine safe from any code? | 172 000 states |
| `scoping` | Is the symbol table a nest of scopes? | 61 000 states |
| `backend` | Does compiled code do what its source means? | 21 000 states |
| `typing` | Does acceptance keep its promises at run time? | 7 800 states |
| `lexer` | Is every text cut into the right tokens? | 184 000 states |
| `frontend` | Does the parser accept the grammar and the builder find every part? | 221 000 states |
| `pipeline` | Does a command do what was asked, through files too? | 107 000 states |
| `interpreter_ancestor`, `backend_quotient`, `backend_record`, `lexer_keyword`, `pipeline_tree` | Five places where a comment or the documentation says otherwise than the code does | one or a few inputs each |

**interpreter** (IntMax 127, 16 stack slots, SizeModulus 1024).  Programs: the scaled programs
of `test/milestone4/ir`; compiler output with recursion, loops, arrays and nesting; every
operation on every pair of ten operands of all kinds; programs that overwrite each word of a
frame header with values pointing up, down and to themselves; stores to each word of a caller's
frame; and all 17³ sequences of three instructions chosen to break frames, called as a
procedure.  Sixteen slots hold five frames, so that a saved link can point to a wrong frame in
every direction, and recursion fills the stack.  `SizeModulus` is larger than four times the
range of an int as 2⁶⁴ is against 2³², which the assumption states and the proofs use.
`TypeOK`: values, registers and stack stay in range.  `ReturnUnwinds`: a return always goes
down and touches nothing below the arguments.  `StoresSpareHeaders`: STO never changes a header
of the running or of the addressed frame.

**scoping** (names `x`, `X`, `integer`; three declarations; four blocks).  Two spellings of one
name and a predefined one give shadowing, redeclaration and case folding; three declarations in
four blocks give a chain continued after an inner block was closed, a sibling block and a block
with no entry.  `LinksDescend`, `LevelsAreDepths` and `ChainsAreDisjoint` are the structure the
walks rely on, `ImplementsScopes` the refinement.

**backend** (IntMax 127, 45 slots, inputs of up to two lines).  Fourteen sources, each for a
hazard of the translation: recursion through expressions; three levels of nesting with calls
outwards; siblings; arrays of arrays and of records; loops in both directions; nested cases;
records in records; boolean conditions; returns out of loops; local arrays and records; failing
arithmetic; reads into every kind of place; endless recursion; counting past IntMax.  With
the sources of `typing`, every kind of statement, expression and type the generator handles
occurs.  The inputs include
indices out of range, divisors of zero, missing input, input of the wrong kind and input too
large.  45 slots are enough for every source that ends; `MaxDepth` makes Semantics call the
endless one an error.  `FramesIntact`, `OperandsBalanced`, `AccessesOwnSlots` are about each
step; `FramesNeverFault` says that the checks by which the interpreter protects its frames never
reject generated code (a check one slot too strict shows here); `OutputIsMeaning` is about the
text and the way the program ends; `Stops` is liveness.
`IsDisciplined` says that the run is one of `DisciplineSpec`, that is, that the code of every
source obeys its layout.  From this the first four follow by proof for every input and every
depth of calls; the run checks them as well, on the states themselves.  An error of the generator
shows in `IsDisciplined` before anything runs, an error of the layout in the other four.

**typing** (the same machine with 40 slots).  1339 programs: each operator on each pair of variables of all types
in each use, every order of two statements that assign or read a variable in a program and in a
procedure, and every way to return up to two nested ifs.  The type checker accepts 210, which
are run.  `NoTypeFault`, `LoadsAreAssigned`, `FunctionsReturn` are the three promises. Two of
them are kept only in the form the code keeps them: initialization is a set that grows in
source order, so the programs avoid assignments in branches or loops that may not be entered,
and uses of the program's variables in subprograms are not checked by intention
(`suppressGlobalInitCheck_`), so the procedures are called after the assignments.

The verdicts of `TypeChecker` on all 1339 sources, and the code of `CodeGenerator` for the 210
accepted ones, were compared with those of the compiled C++ program and agree.

**lexer** (all texts up to five characters over five alphabets, one for numbers and names, one
for quotes, one for comments, one for keywords, one, up to four characters, for operators and
characters outside the table; and seven longer texts).  Five characters are enough for each
alphabet to reach every state and every branch of the loops with one character more to be handed
back; the longer texts have ranges, keywords with gaps, runs of quotes and comments that look
closed.  `HeldIsLast` and `NothingLost` say that no character is lost or read twice,
`LongestMatch` that no longer token starts at the same place (except for the second number of a
range, and for the keywords with a gap, see `lexer_keyword`), `ErrorsAreUnknowns` that the two
ways in which `main.cpp` stops at invalid text agree, `QuotesRecovered` that the value of a
literal determines its text, `Finishes` that the lexer stops.

**frontend** (sixteen programs in two styles; all sentences up to a length at eight places of a
program, over the token types that matter there; all sequences of these up to a shorter length).
The places are chosen where the parser looks ahead more than one token or where a list may end in
two ways: statements that begin with a name, else and nested ifs, case branches, loops,
expressions, types, declarations, headings.  The lengths let every alternative there be followed
by another one.  `AcceptsSentences`: what is derived is never rejected; `DerivesTokens`: what is
accepted is derived; `TreeSpellsTokens`: the leaves are the tokens, in order; `RoundTrip`: a
written program comes back; `Decided`: parser and builder end.  That the grammar allows what the
documentation of the language shows is read off Syntax, not checked.

**pipeline** (fourteen sources, three commands, two file names, 49 sets of options).  Three commands
are the shortest way for a file to be written, read and saved, and read again, which is where
leaves without a value are lost.  The sources have values with parentheses, square brackets and
the words `isParseTreeMetaLine` looks for, comments and invalid text of one and of several
lines, the markers of a bundle's section, an error of each phase, and a loop without an end.
`TokensReread` and `TreeReread` say when a file gives back what was saved.  For a parse tree file
the condition is exact.  So it is for a bundle without markers in its texts; an end marker in a
literal cuts the tree, which the property says is never taken for the saved one, and after a begin
marker in the printed AST nothing is promised.  What the code does in these cases (a tree cut
short is analysed, and run if the builder takes it; a piece of the AST is read as a tree; a
second root is refused) is reached by three of the sources, and was seen of the compiled program:
the AST of a program that writes a text with the end marker is read back as a shorter program,
with exit status 0, although the bundle says that the embedded tree "allows Milestone 4 to
reconstruct the decorated AST and symbol table deterministically" (`main.cpp:509`).
`MeansTheSource`: a command on files that lost nothing, none of them a bundle with a marker in its
texts, analyses and runs the source.  `DoneAsAsked`: what success and failure mean for files and
output.  Nothing is said of the end of a command: it ends if the program it runs does, which is
`Stops` and rests on the bound of the stack and the counters there.
Deadlock is not checked: the user may stop calling commands, and an endless program is the
command's last phase.

The runs that end in a violation each check one property against one quoted line; `findings` in
`PROJECT.json` has the quotations:

* `interpreter_ancestor`: the bound of a load through the static chain is `bp_`, so that it
  reaches activations that lie between the one meant and the running one
  (`interpreter.cpp:74`).
* `backend_quotient`: `div` computes the real quotient (`code_generator.cpp:675`).
* `backend_record`: a variable of a named record type gets one slot (`scope_builder.cpp:472`).
* `lexer_keyword`: an identifier that repeats the last letter of `and`, `array` or `downto` is cut
  in two, for want of an arrow in `config/config_lexer.txt`.
* `pipeline_tree`: a saved parse tree is not the tree that is read, when a value has a square
  bracket or a suspect word, or a leaf has no value (`main.cpp:366`, 395, 410).

Four more disagreements were found with the same modules, outside the sources and bounds of the
runs above: an array passed by value is one slot for the caller and many for the callee, whose
accesses hit its own header (`scope_builder.cpp:128`); an index of type real is accepted and
stops the program (`type_checker.cpp:762`); uses inside the indices of an assigned element are
not checked for initialization (`type_checker.cpp:729`); a case whose branches all return counts
as returning though it may match none (`type_checker.cpp:1225`).

**Deadlock.**  Checked in every run but `pipeline` and `pipeline_tree`: what has stopped stutters by an action of its
own (`Stopped`, `Done`, `Idle`), so a deadlock would be an instruction that neither executes nor
throws, a character no branch of the lexer takes, or a token the parser has no answer to.

**Fairness.** Weak fairness of the one step there is: the interpreter's (`Stops`), the lexer's
(`Finishes`), and that of parser and builder (`Decided`).
Each is a loop or a sequence of calls that takes the next instruction, character or token
without waiting for anything; input is complete before it starts.  Of commands nothing is assumed,
neither that the user calls one nor that it ends.

## 4. The proofs

All theorems are for every value of the constants, under the named assumptions
(`IntMaxAssumption`, `StackAssumption`, `ProgramsAssumption`, `InputsAssumption` and the others
TLC evaluates): the int width, the stack bound, the set of programs, the set of names, the number
of blocks, the texts to be read, the table of rules, the sources, the commands and their number.
Assumptions that say more than a type are these:

* `HighCharsAssumption`: the quote is in the table of the lexer, not a character outside it.
* `TableAssumption`, `TakingAssumption`: rules and tokens have different names, and a rule whose
  node takes over a child stands behind one that builds a node (the calls in `parseStatement`).
* `SourcesAssumption`, `TreesAssumption`: a leaf of the parser's tree is labelled with the type
  of its token, and only comments and invalid text have line breaks; `AstsAssumption`: a line of
  the printed AST has none; `MarksAssumption`: texts are made of characters and of the words the
  readers know, among which is a name ("no type") for the type of a label that names none.
* `VerdictsAssumption`: two sources with one tree, as far as the builder uses it, have one
  verdict and one printed AST.  The analyses see nothing but that tree.

**Induction** holds what the others need of natural numbers.  The library's induction theorems
have an operator as their parameter; here the induction predicate is a set of numbers, and that a
set with 0 and all successors has every number follows from the well-foundedness of `<`.
`UnfoldingExists` gives a function defined by recursion over numbers, so that recursive functions,
over prefixes of a text or the entries of a table, can be unfolded; the other lemmas say what
`FlattenSeq`, `Max` and `Min` of the community modules return.

**InterpreterProofs.** `TypeCorrect`: `Spec => []TypeOK`.  `TypeOK` is
inductive by itself because the machine checks all it needs at each instruction; what makes the
proof long is that each way to compute a value must be shown to stay in the ints or to fault.
`ReturnsUnwind` and `StoresSpare` are action properties: given TypeOK, the step of RET lands
strictly below the frame, and the address of a STO, wrapped around or not, differs from each
header slot. The wrap-around case needs that base plus operand exceeds IntMax by less than a
full turn, so that the result is negative and faults.

**ScopingProofs.**  `Structure`: `TypeOK /\ LinksDescend /\ LevelsAreDepths /\
ChainsAreDisjoint` is inductive, and none of the last three is alone: a new entry is linked to
the youngest of its block, which must have the block's depth for levels to agree along the
chain, and must be the youngest of no other block for chains to stay apart.  `TypeCorrect`,
`LookupsEnd`, `LevelsCorrect` and `ChainsCorrect` are its parts.

`Refinement`: the table implements Scopes, for every set of names and any number of declarations
and blocks.  The mapping reads a scope off a chain by a walk along the links.  That the walk is a
function, and finds the declaration of a name on the chain if there is one, is an induction over
the entries, to which links lead backwards (`LinksDescend`).  An insert adds an entry that no
older link leads to, so a walk from an older entry finds what it found; this is a second
induction.  Then each operation of the table is a step of Scopes: an insert changes the scope of
its block only, since no other block's chain begins with the new entry (`ChainsAreDisjoint`), and
a lookup through the open blocks finds the innermost scope that has the name.

**LexerProofs.**  `LexerTypes`, `HeldCharacter`, `NoCharacterLost` and `ErrorsWritten`, for every
alphabet and texts of any length.  The inductive invariant `IInv` says how far the input is settled, that is,
cut into tokens and blanks: up to the character in hand between two tokens, up to the start of
the lexeme within one (`Progress`).  It needs two facts of the automaton: the lexeme is empty
exactly in the start state (`ModeInv`), and a lexeme read as a range contains two dots with
something before and behind them (`DotsRead`), or `write_range_tokens` could not cut it into
four tokens.  `ErrorsWritten` needs only the types: `ErrorsAreUnknowns` is inductive, because each
action that writes an UNKNOWN also reports.

**LexemeProofs.**  `TokensAreLongest` and `QuotesKept`, again for every alphabet and every text.
The automaton is compared with the shapes of tokens in three parts: what was read before a state
has the form of that state (`Form`; one arrow keeps it, `FormGrows`); a text of the form of an
accepting state has the shape of the token accepted (`AcceptedShape`); and with a character for
which the state has no arrow no text goes on to be a token (`AcceptedLongest`).  The last is
false at the gaps in the table, which is why `LongestMatch` excepts them.  `FormInv` carries the
form through the loop, `LongestInv` says of every token written that it is as long as can be; the
tokens of a range, which is cut afterwards, are taken apart by hand.  `QuotesKept` follows from
the shape of a literal: its quotes are paired, and for paired quotes decoding and doubling, two
recursive functions over prefixes, undo each other.

**ParserProofs.**  `ParserTypes`, and `ParserDerives`: for every table of rules and every input,
Parser implements Grammar, so that the refinement does not depend on the rules of Syntax or on
their look-ahead.  The invariant is that what was consumed are terminals, which makes the head of
`todo` the leftmost nonterminal of the form.

`TreesSpellTokens`: the leaves of an accepted program's tree are its tokens, each once and in
order.  The invariant `TreeInv` is that the children of the nodes under construction, from the
outermost to the innermost, spell the tokens consumed so far.  Returning and matching keep it as
long as a node is added to the innermost call; handing a node over keeps it if there is a last
child to hand over and it stays the last in the reading order.  That is `NestInv`: calls are
nested, so that a node returns exactly when its function has nothing left to read, and whenever a
rule that takes a node comes to be predicted, the call it belongs to has just been given one, by
the terminal or the rule before it.  Trees are recursive and the prover has no induction over
them; what a node spells is therefore given by a function on a finite history of nodes, each
younger than its children, and one lemma (`LeavesYield`) shows by induction on age that `Leaves`,
recursive over the paths from the root, agrees with it.

**PipelineProofs.**  `PipelineTypes` and `Promises`, for any sources, options and files, and any
number of commands.  `DoneAsAsked` speaks of the end of a command only; the invariant `PhaseInv`
says of each phase which of the files asked for this command has written by then (a token file
past the tokens if the input was a source or tokens, a tree past the tree, the AST past the
report), that no code or output was shown yet, which stops are behind it, and that what reaches
the generator had no semantic errors.  The one fact about options it needs is that `--lex-only`
was refused for any input but a source: a tree file with that option would otherwise pass by the
phase that stops for it.  What the builder and analyses answer is any verdict.

`TokensComeBack`, `TreesComeBack` and `SourceIsMeant` say what files are worth.  `ContentInv` says
of each file on the disk which text it holds, and of the memory of the running command whether it
is the source's, or may differ since something was lost (`clean`).  It rests on lemmas about the
operators alone: that a file is cut into the lines it was written from, that a line of a token
gives back type and value, because the last parenthesis of a line is the one that was written,
and that a line of a tree gives back its depth, label and value unless it is one of those the
property names.  A value with a line break makes two lines of one, which a reader cannot know;
this is the one exception in `TokensReread` (a comment, or invalid text).  For tree files the
exceptions are exact: the proof shows both that nothing else is lost and that what is excepted is.
For bundles it shows first what the section is (`SectionIs`): the lines after the line of the
begin marker, if the AST has none (`AfterMarker`), up to the first line with an end marker, which
is the last one or that of a leaf with the marker in its value (`BeforeMarker`).  Without such a
leaf the section is the tree; with one that is not the last node the section has fewer lines than
the tree has nodes, and what is read of it is another tree (`ReadShorter`).

**DisciplineProofs.**  `FramesStayIntact`, `OperandsStayBalanced`, `AccessesStayInSlots` and
`FramesDoNotFault`: for every disciplined program of any size, nesting and depth of recursion,
every input and every size of the machine, `DisciplineSpec => []FramesIntact` and so on;
`DisciplinedCodeEndsInside` adds
that the loop of `execute` is never left by running past the code.  The theorems are about
programs, not about the generator; that the code of a source is disciplined is `IsDisciplined`,
which TLC checks for the sources of `backend`.

None of the four properties is inductive, nor are the four together: whether a return finds its
caller's operands depends on all stores that were made since the call.  The invariant
`DisciplineInv` describes the whole stack: there is a sequence of frames (`Framed`), the outermost
that of the main program, the last with base `bp` and at the address `ip`, such that

* each frame begins where the operands of the one below it end, less its own arguments
  (`Calls`), has the header its call gave it (`Linked`), and the stack ends with the operands of
  the last (`Topmost`);
* the operands under way in each frame are as the layout says at the address where it waits
  (`Fitting`): a number is within its bounds, an address is that of the slot meant;
* each frame has a *display*, the numbers of the frames its static links lead to, one for each
  unit around its own, and the display goes on from each of them as that one's does
  (`Displayed`).

The display is why static links are right at all: a call of level *l* takes the frame found *l*
links out, of which the layout says that it is the unit the called one is declared in
(`CalledOn`), and a walk along the links is a walk along the display (`WalkLeadsOut`, by induction
over the levels).  The operands are why indirect accesses are right: an address is a slot plus
numbers that CHK has bounded (`ComputedFits` for the arithmetic, overflow included, which faults).
The slots of all frames are disjoint from all headers and from all operands under way
(`FramesApart` by induction over the frames, `SlotPlace`, `SlotSpared`), so a store leaves `Linked`
and `Fitting` as they are, also those of callers (`Spares`, `SharedFrames`).  Each instruction is
then one of four changes of the frames: work within the last (`StepOn`), INT (`EnteredOn`), a
call (`CalledOn`), a return (`ReturnedOn`).  That `ActiveBases`, which the properties follow along
the dynamic links, are the bases of the frames is a last induction (`ActiveFrames`).  What may
still throw in disciplined code are the bounds of an index (CHK), operands whose values or kinds
do not fit an operation, the input, a full stack, a literal that is not in its pool, and what
`validateInstruction` checks.

**Only model-checked.**  Of compiled programs: that generated code is disciplined
(`IsDisciplined`), `OutputIsMeaning`, and the three promises of the type checker (`NoTypeFault`,
`LoadsAreAssigned`, `FunctionsReturn`): the passes and Semantics are RECURSIVE operators on trees,
which the prover does not accept.  The round trip of parser and builder (so is the builder); what
look-ahead accepts (`AcceptsSentences` depends on the rules of Syntax, and is a fact about all
sentences of a grammar); and the liveness properties, since the prover does not reason about
fairness.

## 5. Not modelled, and what is left

Not modelled:

* printing of syntax trees and of the tables (`ast_nodes.cpp`, the end of `symbol_table.cpp`),
  the printed instructions, messages and source positions: formatting, which no property is about;
* the content of the transition trace and the export of the automaton (`dfa.cpp`);
* how options are spelled (`parseOptions` before line 236), a file that is missing or is none of
  the kinds the commands write, and the blanks that are trimmed from lines, those at the ends of
  a line cut by a marker included;
* of a bundle: its two comment lines and the lines around the AST, in which no reader finds
  anything.  Where the section begins inside the AST, a node's depth is what its line's
  indentation says, though `printTree` would write one level for a step of several;
* whether what was written to a file arrived (`out << content`, `main.cpp:96`, is not checked): a
  file that does not open is modelled, a full disk is not;
* a double's rounding; an integer literal too large for `long long`, which the builder turns into 0;
* the codes of characters: a character is compared as such.

Hazards without a property (`PROJECT.json` says why for each) are, first, those where no document
says what is meant: a for loop whose bound changes, a user's procedure named like a built-in one,
an array or record assigned as a whole, an array indexed by a type name.  Others the code does not
meet, so that the sources leave them out: an array as an argument, an unassigned variable in the
index of a target.  One is not modelled: the annotations that scope errors leave unset for the type
checker.  Some are covered in part, as their notes say: initialisation in branches and loops, a
case that counts as returning, an index of type real, and the second halving of quotes by the
builder (no program of the round trip has two adjacent ones in a value).

Done in this order: the interpreter and its proofs, the symbol table and its proofs, scope
builder and code generator, their composition with the interpreter, the type checker; then the
lexer and its proofs, parser and AST builder and the parser's proofs, the pipeline and its
proofs, the discipline of generated code and its proofs.  Left:

1. **More proofs**: of any table of rules without a cycle of unconsuming calls, a measure that
   decreases in every step of the parser.
2. **More sources for Backend**: functions as parameters of calls inside conditions and bounds,
   programs with scope errors for the type checker that runs after them.
