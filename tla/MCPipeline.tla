------------------------------ MODULE MCPipeline ------------------------------
(***************************************************************************)
(* Up to three commands on one source: a program that writes a text, one   *)
(* that does so for ever, one that declares an array, with texts and       *)
(* comments the files cannot keep, markers of bundles among them, errors   *)
(* of each phase, and every way to name inputs and outputs.                *)
(***************************************************************************)
EXTENDS Pipeline

Leaf(depth, type, place) == [depth |-> depth, label |-> type, token |-> place]
Inner(depth, label) == [depth |-> depth, label |-> label, token |-> 0]

(* program p; begin write('...') end.                                      *)
WriteTypes ==
  << "PROGRAMSY", "IDENT", "SEMICOLON", "BEGINSY", "IDENT", "LPARENT", "STRING", "RPARENT",
     "ENDSY", "PERIOD" >>

WriteTree ==
  << Inner(0, "program"), Inner(1, "program-header"), Leaf(2, "PROGRAMSY", 1),
     Leaf(2, "IDENT", 2), Leaf(2, "SEMICOLON", 3), Inner(1, "declaration-part"),
     Inner(1, "compound-statement"), Leaf(2, "BEGINSY", 4), Inner(2, "statement-list"),
     Inner(3, "statement"), Inner(4, "procedure/function-call"), Leaf(5, "IDENT", 5),
     Leaf(5, "LPARENT", 6), Inner(5, "parameter-list"), Inner(6, "expression"),
     Inner(7, "simple-expression"), Inner(8, "term"), Inner(9, "factor"),
     Leaf(10, "STRING", 7), Leaf(5, "RPARENT", 8), Leaf(2, "ENDSY", 9), Leaf(1, "PERIOD", 10) >>

(* program p; var a: array [1..2] of integer; begin end.                   *)
ArrayTypes ==
  << "PROGRAMSY", "IDENT", "SEMICOLON", "VARSY", "IDENT", "COLON", "ARRAYSY", "LBRACK",
     "INTCON", "PERIOD", "PERIOD", "INTCON", "RBRACK", "OFSY", "IDENT", "SEMICOLON",
     "BEGINSY", "ENDSY", "PERIOD" >>

ArrayTree ==
  << Inner(0, "program"), Inner(1, "program-header"), Leaf(2, "PROGRAMSY", 1),
     Leaf(2, "IDENT", 2), Leaf(2, "SEMICOLON", 3), Inner(1, "declaration-part"),
     Inner(2, "var-declaration"), Leaf(3, "VARSY", 4), Inner(3, "identifier-list"),
     Leaf(4, "IDENT", 5), Leaf(3, "COLON", 6), Inner(3, "type"), Inner(4, "array-type"),
     Leaf(5, "ARRAYSY", 7), Leaf(5, "LBRACK", 8), Inner(5, "range"), Inner(6, "constant"),
     Leaf(7, "INTCON", 9), Leaf(6, "PERIOD", 10), Leaf(6, "PERIOD", 11), Inner(6, "constant"),
     Leaf(7, "INTCON", 12), Leaf(5, "RBRACK", 13), Leaf(5, "OFSY", 14), Inner(5, "type"),
     Leaf(6, "IDENT", 15), Leaf(3, "SEMICOLON", 16), Inner(1, "compound-statement"),
     Leaf(2, "BEGINSY", 17), Inner(2, "statement-list"), Inner(3, "statement"),
     Inner(4, "empty"), Leaf(2, "ENDSY", 18), Leaf(1, "PERIOD", 19) >>

(* program p; begin repeat write('...') until b end.                       *)
RepeatTypes ==
  << "PROGRAMSY", "IDENT", "SEMICOLON", "BEGINSY", "REPEATSY", "IDENT", "LPARENT", "STRING",
     "RPARENT", "UNTILSY", "IDENT", "ENDSY", "PERIOD" >>

RepeatTree ==
  << Inner(0, "program"), Inner(1, "program-header"), Leaf(2, "PROGRAMSY", 1),
     Leaf(2, "IDENT", 2), Leaf(2, "SEMICOLON", 3), Inner(1, "declaration-part"),
     Inner(1, "compound-statement"), Leaf(2, "BEGINSY", 4), Inner(2, "statement-list"),
     Inner(3, "statement"), Inner(4, "repeat-statement"), Leaf(5, "REPEATSY", 5),
     Inner(5, "statement-list"), Inner(6, "statement"), Inner(7, "procedure/function-call"),
     Leaf(8, "IDENT", 6), Leaf(8, "LPARENT", 7), Inner(8, "parameter-list"),
     Inner(9, "expression"), Inner(10, "simple-expression"), Inner(11, "term"),
     Inner(12, "factor"), Leaf(13, "STRING", 8), Leaf(8, "RPARENT", 9), Leaf(5, "UNTILSY", 10),
     Inner(5, "expression"), Inner(6, "simple-expression"), Inner(7, "term"), Inner(8, "factor"),
     Inner(9, "variable"), Leaf(10, "IDENT", 11), Leaf(2, "ENDSY", 12), Leaf(1, "PERIOD", 13) >>

MCTrees ==
  [types \in {WriteTypes, ArrayTypes, RepeatTypes} |->
     CASE types = WriteTypes -> WriteTree
       [] types = ArrayTypes -> ArrayTree
       [] types = RepeatTypes -> RepeatTree]

-----------------------------------------------------------------------------
(* The sources: tokens have their spelling as a value.                     *)
Spelling ==
  [LBRACK |-> << "[" >>, RBRACK |-> << "]" >>, LPARENT |-> << "(" >>, RPARENT |-> << ")" >>]

Token(type, value) == [type |-> type, value |-> value]

Spelled(types) ==
  [n \in DOMAIN types |->
     Token(types[n], IF types[n] \in DOMAIN Spelling THEN Spelling[types[n]] ELSE << "w" >>)]

Quoted(text) == << "'" >> \o text \o << "'" >>

Writes(name, text) == [Spelled(WriteTypes) EXCEPT ![5].value = name, ![7].value = Quoted(text)]

Comment(text) == << Token("COMMENT", << "{" >> \o text \o << "}" >>) >>

Repeats(text) == [Spelled(RepeatTypes) EXCEPT ![8].value = Quoted(text)]

(* What is printed of a program: the text of its call, and of the tables   *)
(* their headings.                                                         *)
Ast(text) ==
  << [indent |-> 0, text |-> << "ProgramNode", "(", "name", "w", ")" >>],
     [indent |-> 2, text |-> << "ProcedureCall", "(" >> \o Quoted(text) \o << ")" >>],
     [indent |-> 0, text |-> << "tab", "(", ")" >>],
     [indent |-> 0, text |-> << "btab", "(", ")" >>] >>

(* Texts with the markers of a bundle's section.                           *)
Ends == << "x", EndMark, "y" >>
Begins == << "x", BeginMark, "y" >>
Encloses == << BeginMark, "x", "(", "y", ")", EndMark, "z" >>

MCAsts == {Ast(text) : text \in {<< "x" >>, Ends, Begins, Encloses}}

(* Of texts without markers one stands for all.                            *)
Source(tokens, verdict) == [tokens |-> tokens, verdict |-> verdict, ast |-> Ast(<< "x" >>)]

Marked(tokens, verdict, text) == [tokens |-> tokens, verdict |-> verdict, ast |-> Ast(text)]

MCSources ==
  { Source(Writes(<< "w" >>, << "x", ")", "(" >>), "fine"),
    Source(Writes(<< "w" >>, << "a", "[", "]" >>), "fine"),
    Source(Writes(<< "selesai" >>, << "x" >>), "faulty"),
    Source(Spelled(ArrayTypes), "untranslatable"),
    Source(Comment(<< "c", ")" >>) \o Writes(<< "v" >>, << "x" >>), "failing"),
    Source(Comment(<< "c", ")", "\n", "PERIOD", "\n", "d" >>) \o Writes(<< "w" >>, << "y" >>), "fine"),
    Source(Comment(<< "c", "\n" >>) \o Writes(<< "w" >>, << "z" >>), "faulty"),
    Source(Append(Spelled(WriteTypes), Token("UNKNOWN", << "@" >>)), "fine"),
    Source(Append(Spelled(WriteTypes), Token("UNKNOWN", << "'", ")", "\n" >>)), "fine"),
    Source(Spelled(<< "PROGRAMSY", "IDENT" >>), "fine"),
    Source(Repeats(<< "x" >>), "endless"),
    Marked(Repeats(Ends), "endless", Ends),
    Marked(Writes(<< "w" >>, Begins), "fine", Begins),
    Marked(Writes(<< "w" >>, Encloses), "fine", Encloses) }

MCMarks ==
  Reserved
    \cup {"w", "x", "a", "v", "c", "d", "y", "z", "@", "{", "}", "'", "COMMENT", "UNKNOWN", "no type"}
    \cup {"ProgramNode", "name", "ProcedureCall", "tab", "btab"}
    \cup Range(WriteTypes) \cup Range(ArrayTypes) \cup Range(RepeatTypes)
    \cup {WriteTree[k].label : k \in DOMAIN WriteTree}
    \cup {ArrayTree[k].label : k \in DOMAIN ArrayTree}
    \cup {RepeatTree[k].label : k \in DOMAIN RepeatTree}

MCFileNames == {"f", "g"}

Command ==
  [mode |-> "source", input |-> NoName, stop |-> "none", saveTokens |-> NoName, saveTree |-> NoName,
   saveAst |-> NoName, output |-> NoName, embed |-> FALSE, trace |-> NoName, verbose |-> FALSE,
   tac |-> FALSE, run |-> FALSE]

Inputs == {[mode |-> "source", input |-> NoName]} \cup [mode : {"tokens", "tree", "bundle"}, input : MCFileNames]

(* What is asked of each phase; -o with and without the option it replaces.*)
Demands ==
  {[Command EXCEPT !.run = TRUE, !.verbose = TRUE],
   [Command EXCEPT !.run = TRUE, !.tac = TRUE, !.saveTree = "f", !.saveAst = "g"],
   [Command EXCEPT !.stop = "lex", !.output = "f"],
   [Command EXCEPT !.stop = "parse", !.output = "g", !.saveTree = "f"],
   [Command EXCEPT !.saveTokens = "f", !.saveTree = "g", !.trace = "g"],
   [Command EXCEPT !.embed = TRUE, !.output = "f", !.saveTokens = "g"],
   [Command EXCEPT !.embed = TRUE]}

MCCommands == {[d EXCEPT !.mode = c.mode, !.input = c.input] : c \in Inputs, d \in Demands}
=============================================================================
