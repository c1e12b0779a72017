------------------------------- MODULE Pipeline -------------------------------
(***************************************************************************)
(* main.cpp: the command line arion, called several times on the files it  *)
(* writes.  A command takes the source, a token file, a parse tree file or *)
(* a decorated AST bundle through the phases behind it, and may save what  *)
(* each of them gives.  Texts are sequences of marks, a mark being a       *)
(* character or a word the readers look for; type names and labels are     *)
(* marks of their own, in the spelling of the tokens.  A tree is the list  *)
(* of its nodes, top down, with their depths, as printTree writes it.      *)
(*                                                                         *)
(* The lexer, the parser and the analyses are modules of their own: here a *)
(* source is known by its tokens, its tree, its verdict and what is        *)
(* printed of its AST, tables and errors.                                  *)
(***************************************************************************)
EXTENDS Integers, Sequences, SequencesExt, FiniteSetsExt

CONSTANTS
  Marks,        \* what texts are made of
  Sources,      \* [tokens, verdict, ast]
  Asts,         \* what can be printed of an AST: lines [indent, text]
  Trees,        \* from the sequences of types the parser accepts to their trees:
                \* nodes [depth, label, token], token being the leaf's place, else 0
  Commands,     \* the options of a command
  FileNames,
  MaxCommands   \* bound: how many commands are called

(* An endless program runs for ever: the machine has no bound on steps.    *)
Verdicts == {"fine", "faulty", "untranslatable", "failing", "endless"}

(* What the builder and the analyses do with a tree of no source.          *)
Outcomes == Verdicts \cup {"exception"}

NoName == "none"

Options ==
  [mode : {"source", "tokens", "tree", "bundle"}, input : FileNames \cup {NoName},
   stop : {"none", "lex", "parse"}, saveTokens : FileNames \cup {NoName},
   saveTree : FileNames \cup {NoName}, saveAst : FileNames \cup {NoName},
   output : FileNames \cup {NoName}, trace : FileNames \cup {NoName},
   embed : BOOLEAN, verbose : BOOLEAN, tac : BOOLEAN, run : BOOLEAN]

(* What the readers of files look for.                                     *)
MetaMarks == {"selesai", "disimpan di"}
BeginMark == "=== BEGIN EMBEDDED PARSE TREE ==="
EndMark == "=== END EMBEDDED PARSE TREE ==="
Reserved ==
  {"(", ")", "[", "]", "<", ">", "\n", "Output", BeginMark, EndMark} \cup MetaMarks
Words == Marks \ Reserved

(* Any name that is no word of its own.                                    *)
ASSUME MarksAssumption == Reserved \subseteq Marks /\ "no type" \in Words

(* Only a comment goes over several lines, or text that is no token.       *)
ASSUME SourcesAssumption ==
  \A s \in Sources :
    /\ s.verdict \in Verdicts /\ s.ast \in Asts
    /\ s.tokens \in Seq([type : Words, value : Seq(Marks)])
    /\ \A n \in DOMAIN s.tokens :
         (\E p \in DOMAIN s.tokens[n].value : s.tokens[n].value[p] = "\n")
           => s.tokens[n].type \in {"COMMENT", "UNKNOWN"}

ASSUME AstsAssumption ==
  Asts # {} /\ Asts \subseteq Seq([indent : Nat, text : Seq(Marks \ {"\n"})])

(* A leaf is labelled with the type of its token.                          *)
ASSUME TreesAssumption ==
  \A types \in DOMAIN Trees :
    /\ Trees[types] \in Seq([depth : Nat, label : Words, token : Nat])
    /\ \A k \in DOMAIN Trees[types] :
         LET node == Trees[types][k] IN
         node.token # 0 => node.token \in DOMAIN types /\ node.label = types[node.token]

ASSUME CommandsAssumption ==
  /\ Commands \subseteq Options /\ NoName \notin FileNames /\ MaxCommands \in Nat
  /\ \A o \in Commands : o.mode = "source" <=> o.input = NoName

VARIABLES
  source,
  disk,      \* the files: their kind and what was saved, of which the text is
             \* made (TokenLines, TreeLines); by whom, and whether it was clean
  options,
  phase,
  toks, tree, outcome,
  ast,       \* the lines printed of the AST
  printed,   \* the kinds of text on the standard output
  exit,      \* 0 or 1, -1 while the command runs
  why,       \* what a command that failed complained of
  count,     \* how many commands were called
  clean      \* nothing was lost between the source and this command's input

memory == << toks, tree, outcome, ast >>
pipelineVars == << source, disk, options, phase, memory, printed, exit, why, count, clean >>

-----------------------------------------------------------------------------
(* Tokens as text.                                                         *)

Valued == {"IDENT", "INTCON", "REALCON", "CHARCON", "STRING", "UNKNOWN", "COMMENT"}

Bracketed(value) == << "(" >> \o value \o << ")" >>

(* Token::to_string.                                                       *)
TokenText(t) ==
  << t.type >> \o IF t.type \in Valued /\ t.value # << >> THEN Bracketed(t.value) ELSE << >>

Places(mark, text) == {n \in DOMAIN text : text[n] = mark}

(* The elements of s at the places kept.                                   *)
Those(s, kept) ==
  LET those[n \in 0 .. Len(s)] ==
        IF n = 0 THEN << >>
        ELSE IF n \in kept THEN Append(those[n - 1], s[n]) ELSE those[n - 1]
  IN  those[Len(s)]

(* getline: the characters of a line have as many breaks before them.      *)
LinesOf(text) ==
  LET breaks == Places("\n", text)
      Line(n) == {p \in DOMAIN text \ breaks : Cardinality({q \in breaks : q < p}) = n - 1}
  IN  [n \in 1 .. Cardinality(breaks) + 1 |-> Those(text, Line(n))]

(* The lines a file of tokens has; readers skip empty ones.                *)
TokenLines(tokens) == FlattenSeq([n \in DOMAIN tokens |-> LinesOf(TokenText(tokens[n]))])

Filled(lines) == Those(lines, {n \in DOMAIN lines : lines[n] # << >>})

(* The name on a line: no type where it is not one word.                   *)
NameIn(text) == IF Len(text) = 1 /\ text[1] \in Words THEN text[1] ELSE "no type"

(* readTokensFromMilestone1Output.                                         *)
IsMalformed(line) ==
  /\ Places("(", line) # {}
  /\ \/ Places(")", line) = {}
     \/ Max(Places(")", line)) < Min(Places("(", line))
     \/ Min(Places("(", line)) = 1

(* Mutant: a value ends at the first closing parenthesis.                  *)
TokenInFirst(line) ==
  IF Places("(", line) = {} THEN [type |-> NameIn(line), value |-> << >>]
  ELSE LET open == Min(Places("(", line)) IN
       [type  |-> NameIn(SubSeq(line, 1, open - 1)),
        value |-> SubSeq(line, open + 1, Min(Places(")", line)) - 1)]

TokenIn(line) ==
  IF Places("(", line) = {} THEN [type |-> NameIn(line), value |-> << >>]
  ELSE LET open == Min(Places("(", line)) IN
       [type  |-> NameIn(SubSeq(line, 1, open - 1)),
        value |-> SubSeq(line, open + 1, Max(Places(")", line)) - 1)]

-----------------------------------------------------------------------------
(* Trees as text.                                                          *)

TreeNode(depth, label, leaf, value) ==
  [depth |-> depth, label |-> label, leaf |-> leaf, value |-> value]

(* The tree of the parser; the n-th leaf is the n-th token.                *)
TreeOf(tokens) ==
  LET nodes == Trees[[n \in DOMAIN tokens |-> tokens[n].type]] IN
  [k \in DOMAIN nodes |->
     TreeNode(nodes[k].depth, nodes[k].label, nodes[k].token # 0,
              IF nodes[k].token # 0 THEN tokens[nodes[k].token].value ELSE << >>)]

(* Node::toString and Node::print.                                         *)
NodeText(node) ==
  IF ~node.leaf THEN << "<", node.label, ">" >>
  ELSE << node.label >> \o IF node.value # << >> THEN Bracketed(node.value) ELSE << >>

TreeLines(nodes) ==
  [k \in DOMAIN nodes |-> [indent |-> nodes[k].depth, text |-> NodeText(nodes[k])]]

IsNonTerminalText(text) == text[1] = "<" /\ text[Len(text)] = ">"

(* isParseTreeMetaLine: lines in which other output is suspected.          *)
IsTreeLine(line) ==
  /\ line.text # << >> /\ line.text[1] # "Output"
  /\ \A mark \in MetaMarks : Places(mark, line.text) = {}
  /\ IsNonTerminalText(line.text) \/ Places("(", line.text) # {}

(* Mutant: a lexeme ends at the first closing parenthesis.                 *)
LexemeInFirst(text) ==
  LET open == Min(Places("(", text))
      inner == SubSeq(text, open + 1, Len(text))
  IN  IF Places(")", inner) = {} THEN inner ELSE SubSeq(inner, 1, Min(Places(")", inner)) - 1)

(* parseTreeTerminal: what follows the last square bracket is taken for a  *)
(* position.                                                               *)
LexemeIn(text) ==
  LET open == Min(Places("(", text))
      brackets == {n \in Places("[", text) : n > open}
      payload == SubSeq(text, open, IF brackets = {} THEN Len(text) ELSE Max(brackets) - 1)
      inner == Tail(payload)
  IN  IF inner # << >> /\ inner[Len(inner)] = ")" THEN Front(inner) ELSE inner

KeptLines(lines) == Those(lines, {k \in DOMAIN lines : IsTreeLine(lines[k])})

(* Mutant: the level is counted in the wrong unit.                         *)
NodeInHalved(line) ==
  IF IsNonTerminalText(line.text)
  THEN TreeNode(line.indent \div 2, NameIn(SubSeq(line.text, 2, Len(line.text) - 1)), FALSE, << >>)
  ELSE TreeNode(line.indent \div 2, NameIn(SubSeq(line.text, 1, Min(Places("(", line.text)) - 1)),
                TRUE, LexemeIn(line.text))

NodeIn(line) ==
  IF IsNonTerminalText(line.text)
  THEN TreeNode(line.indent, NameIn(SubSeq(line.text, 2, Len(line.text) - 1)), FALSE, << >>)
  ELSE TreeNode(line.indent, NameIn(SubSeq(line.text, 1, Min(Places("(", line.text)) - 1)),
                TRUE, LexemeIn(line.text))

(* The first line is the root, and the only one.  The depth of a node is   *)
(* the indentation of its line, which is what printTree makes of it where  *)
(* no level is skipped.                                                    *)
IsRooted(lines) == lines # << >> /\ \A k \in 2 .. Len(lines) : lines[k].indent > lines[1].indent

-----------------------------------------------------------------------------
(* Bundles as text: the printed AST, then the tree between two markers.    *)

(* makeDecoratedAstBundle, or the AST alone.  The lines of the AST's own   *)
(* section are left out: no reader finds anything in them.                 *)
BundleLines(file) ==
  IF file.kind = "ast" THEN file.ast
  ELSE file.ast \o << [indent |-> 0, text |-> << BeginMark >>] >> \o TreeLines(file.of)
                \o << [indent |-> 0, text |-> << EndMark >>] >>

LinesWith(mark, lines) == {k \in DOMAIN lines : Places(mark, lines[k].text) # {}}

(* A part of a line, if there is anything in it.                           *)
Piece(indent, text) == IF text = << >> THEN << >> ELSE << [indent |-> indent, text |-> text] >>

(* Mutant: the section ends at the last end marker.                        *)
BeforeLast(mark, lines) ==
  LET k == Max(LinesWith(mark, lines))
      text == lines[k].text
  IN  SubSeq(lines, 1, k - 1) \o Piece(lines[k].indent, SubSeq(text, 1, Min(Places(mark, text)) - 1))

(* What stands before the first place of a mark, and what after it.        *)
Before(mark, lines) ==
  LET k == Min(LinesWith(mark, lines))
      text == lines[k].text
  IN  SubSeq(lines, 1, k - 1) \o Piece(lines[k].indent, SubSeq(text, 1, Min(Places(mark, text)) - 1))

After(mark, lines) ==
  LET k == Min(LinesWith(mark, lines))
      text == lines[k].text
  IN  Piece(0, SubSeq(text, Min(Places(mark, text)) + 1, Len(text))) \o SubSeq(lines, k + 1, Len(lines))

(* extractDecoratedAstBundleSection: the markers are found in the text of  *)
(* the whole file, wherever they stand.  Empty: none, or no end, or        *)
(* nothing between them.                                                   *)
Section(lines) ==
  IF LinesWith(BeginMark, lines) = {} THEN << >>
  ELSE LET rest == After(BeginMark, lines) IN
       IF LinesWith(EndMark, rest) = {} THEN << >> ELSE Before(EndMark, rest)

-----------------------------------------------------------------------------
(* What the builder reads of a tree: the values of valued leaves only.     *)
Essence(nodes) ==
  [k \in DOMAIN nodes |->
     IF nodes[k].leaf /\ nodes[k].label \in Valued THEN nodes[k] ELSE [nodes[k] EXCEPT !.value = << >>]]

Significant(tokens) == Those(tokens, {n \in DOMAIN tokens : tokens[n].type # "COMMENT"})
Stripped(tokens) ==
  [n \in DOMAIN tokens |-> IF tokens[n].type \in Valued THEN tokens[n] ELSE [tokens[n] EXCEPT !.value = << >>]]

TypesOf(tokens) == [n \in DOMAIN tokens |-> tokens[n].type]

SourceTree ==
  [s \in {r \in Sources : TypesOf(Significant(r.tokens)) \in DOMAIN Trees} |->
     Essence(TreeOf(Significant(s.tokens)))]

(* Errors of the lexer are tokens UNKNOWN (Lexer!ErrorsAreUnknowns).       *)
LexErrors(s) == \E n \in DOMAIN s.tokens : s.tokens[n].type = "UNKNOWN"

(* The builder and the analyses are given the tree and nothing else.       *)
ASSUME VerdictsAssumption ==
  \A s, r \in DOMAIN SourceTree :
    SourceTree[s] = SourceTree[r] => s.verdict = r.verdict /\ s.ast = r.ast

(* The builder and the analyses know the sources' trees; a tree that lost  *)
(* a part may do anything, and anything may be printed of it.              *)
Known(nodes) == {s \in DOMAIN SourceTree : SourceTree[s] = Essence(nodes)}

OutcomesOf(nodes) == IF Known(nodes) = {} THEN Outcomes ELSE {s.verdict : s \in Known(nodes)}

AstsOf(nodes) == IF Known(nodes) = {} THEN Asts ELSE {s.ast : s \in Known(nodes)}

-----------------------------------------------------------------------------
(* Options.  mode is where the input comes from: the source or a file;     *)
(* stop is "lex" or "parse" for --lex-only and --parse-only.               *)

NoFile == [kind |-> "none", of |-> << >>, ast |-> << >>, by |-> 0, clean |-> TRUE]

KindsFor(mode) == IF mode = "bundle" THEN {"ast", "bundle"} ELSE {mode}

IsRefused(o) ==
  \/ o.stop = "lex" /\ o.mode # "source"
  \/ o.stop = "parse" /\ o.mode \in {"tree", "bundle"}
  \/ o.embed /\ o.saveAst = NoName /\ o.output = NoName

(* -o stands for the option of the last phase.                             *)
Resolved(o) ==
  IF o.output = NoName THEN o
  ELSE IF o.stop = "lex" THEN [o EXCEPT !.saveTokens = o.output]
  ELSE IF o.stop = "parse" THEN [o EXCEPT !.saveTree = o.output]
  ELSE [o EXCEPT !.saveAst = o.output]

-----------------------------------------------------------------------------
(* Mutant: the command returns without a status.                           *)
FinishUnset(status, reason) == phase' = "exited" /\ why' = reason /\ UNCHANGED exit

Finish(status, reason) == phase' = "exited" /\ exit' = status /\ why' = reason

Continue(next) == phase' = next /\ UNCHANGED << exit, why >>

Show(kinds) == printed' = printed \cup kinds

(* Mutant: a file that cannot be written is not an error.                  *)
CannotWriteIgnored == Finish(0, "none") /\ UNCHANGED << disk, printed >>

(* writeOutputFile: the file may not open.                                 *)
CannotWrite == Finish(1, "write") /\ UNCHANGED << disk, printed >>

Store(name, kind, of) ==
  disk' = [disk EXCEPT ![name] =
             [kind |-> kind, of |-> of, ast |-> ast, by |-> count, clean |-> clean]]

(* Saves where a name was given.                                           *)
Save(name, kind, of) == IF name = NoName THEN UNCHANGED disk ELSE Store(name, kind, of)

Kept == UNCHANGED << source, options, memory, count, clean >>

(* A command is called; the user names an input of the right kind.         *)
Start(o) ==
  /\ phase \in {"idle", "exited"} /\ count < MaxCommands
  /\ IF o.mode = "source" THEN TRUE ELSE disk[o.input].kind \in KindsFor(o.mode)
  /\ options' = Resolved(o)
  /\ count' = count + 1
  /\ toks' = << >> /\ tree' = << >> /\ outcome' = "none" /\ ast' = << >>
  /\ printed' = {} /\ clean' = TRUE
  /\ IF IsRefused(o) THEN Finish(1, "usage") ELSE phase' = "input" /\ exit' = -1 /\ why' = "none"
  /\ UNCHANGED << source, disk >>

(* The lexer reads the source.                                             *)
Lex ==
  /\ phase = "input" /\ options.mode = "source"
  /\ toks' = source.tokens
  /\ Continue("lexed")
  /\ UNCHANGED << source, disk, options, tree, outcome, ast, printed, count, clean >>

InputFile == disk[options.input]

(* The trace file is for sources only.                                     *)
RefuseTrace ==
  /\ phase = "input" /\ options.mode = "tokens" /\ options.trace # NoName
  /\ Finish(1, "usage")
  /\ Kept /\ UNCHANGED << disk, printed >>

(* A comment, or invalid text.                                             *)
IsMultiline(t) == Places("\n", t.value) # {}

ReadTokens ==
  /\ phase = "input" /\ options.mode = "tokens" /\ options.trace = NoName
  /\ clean' = (InputFile.clean /\ \A n \in DOMAIN InputFile.of : ~ IsMultiline(InputFile.of[n]))
  /\ \E all \in {TokenLines(InputFile.of)} : \E lines \in {Filled(all)} :
       IF \E n \in DOMAIN lines : IsMalformed(lines[n]) THEN Finish(1, "format") /\ UNCHANGED toks
       ELSE toks' = [n \in DOMAIN lines |-> TokenIn(lines[n])] /\ Continue("tokens")
  /\ UNCHANGED << source, disk, options, tree, outcome, ast, printed, count >>

(* Leaves that their own line does not give back.                          *)
IsLostLeaf(node) ==
  node.leaf /\ \/ node.value = << >>
               \/ \E mark \in MetaMarks : Places(mark, node.value) # {}
               \/ node.label \in Valued /\ Places("[", node.value) # {}

IsLossy(nodes) == \E k \in DOMAIN nodes : IsLostLeaf(nodes[k])

(* The end marker in a leaf, and the begin marker in the printed AST: the  *)
(* section is not the tree that was saved.                                 *)
EndsIn(node) == Places(EndMark, node.value) # {}
IsCut(nodes) == \E k \in DOMAIN nodes : EndsIn(nodes[k])

IsMisled(file) == LinesWith(BeginMark, file.ast) # {}

(* readParseTreeFromMilestone2Output and ...FromDecoratedAstBundle: the    *)
(* depths of the kept lines give the tree.                                 *)
ReadTree ==
  /\ phase = "input" /\ options.mode \in {"tree", "bundle"}
  /\ clean' = (/\ InputFile.clean /\ ~ IsLossy(InputFile.of)
               /\ options.mode = "bundle" => ~ IsMisled(InputFile) /\ ~ IsCut(InputFile.of))
  /\ \E all \in {IF options.mode = "tree" THEN TreeLines(InputFile.of)
                 ELSE Section(BundleLines(InputFile))} :
       \E lines \in {KeptLines(all)} :
         IF IsRooted(lines) THEN tree' = [k \in DOMAIN lines |-> NodeIn(lines[k])] /\ Continue("tree")
         ELSE Finish(1, "format") /\ UNCHANGED tree
  /\ UNCHANGED << source, disk, options, toks, outcome, ast, printed, count >>

SaveTrace ==
  /\ phase = "lexed"
  /\ \/ Save(options.trace, "trace", << >>) /\ Continue("traced") /\ UNCHANGED printed
     \/ options.trace # NoName /\ CannotWrite
  /\ Kept

(* Tokens in error are still shown or saved.                               *)
ReportLexErrors ==
  /\ phase = "traced" /\ LexErrors(source)
  /\ Show(IF options.stop = "lex" THEN {"tokens"} ELSE {})
  /\ \/ Save(options.saveTokens, "tokens", toks) /\ Finish(1, "lexical")
     \/ options.saveTokens # NoName /\ Finish(1, "write") /\ UNCHANGED disk
  /\ Kept

PassLexer ==
  /\ phase = "traced" /\ ~ LexErrors(source)
  /\ Continue("tokens")
  /\ Kept /\ UNCHANGED << disk, printed >>

SaveTokens ==
  /\ phase = "tokens"
  /\ \/ /\ Save(options.saveTokens, "tokens", toks)
        /\ IF options.stop = "lex" THEN Finish(0, "none") /\ Show({"tokens"})
           ELSE Continue("parse") /\ UNCHANGED printed
     \/ options.saveTokens # NoName /\ CannotWrite
  /\ Kept

Parse ==
  /\ phase = "parse"
  /\ \E significant \in {Significant(toks)} :
     IF \E n \in DOMAIN toks : toks[n].type = "UNKNOWN" THEN Finish(1, "lexical") /\ UNCHANGED tree
     ELSE IF TypesOf(significant) \notin DOMAIN Trees THEN Finish(1, "syntax") /\ UNCHANGED tree
     ELSE tree' = TreeOf(significant) /\ Continue("tree")
  /\ UNCHANGED << source, disk, options, toks, outcome, ast, printed, count, clean >>

SaveTree ==
  /\ phase = "tree"
  /\ \/ /\ Save(options.saveTree, "tree", tree)
        /\ IF options.stop = "parse"
           THEN Finish(0, "none") /\ Show(IF options.saveTree = NoName THEN {"tree"} ELSE {})
           ELSE Continue("analyse") /\ UNCHANGED printed
     \/ options.saveTree # NoName /\ CannotWrite
  /\ Kept

(* AstBuilder, ScopeBuilder and TypeChecker; the builder may throw.        *)
Analyse ==
  /\ phase = "analyse"
  /\ \E result \in OutcomesOf(tree) :
       /\ outcome' = result
       /\ IF result = "exception" THEN Finish(1, "exception") /\ UNCHANGED << ast, printed >>
          ELSE /\ ast' \in AstsOf(tree)
               /\ Continue("report") /\ Show(IF options.verbose THEN {"tokens", "tree", "ast"} ELSE {})
  /\ UNCHANGED << source, disk, options, toks, tree, count, clean >>

(* The AST is saved before its errors end the command.                     *)
Report ==
  /\ phase = "report"
  /\ \/ /\ Save(options.saveAst, IF options.embed THEN "bundle" ELSE "ast", tree)
        /\ IF outcome = "faulty"
           THEN /\ Finish(1, "semantic")
                /\ Show(IF ~options.verbose /\ options.saveAst = NoName THEN {"ast"} ELSE {})
           ELSE /\ IF options.tac \/ options.run THEN Continue("generate") ELSE Finish(0, "none")
                /\ UNCHANGED printed
     \/ options.saveAst # NoName /\ CannotWrite
  /\ Kept

(* --print-tac stops before --run.                                         *)
Generate ==
  /\ phase = "generate"
  /\ IF outcome = "untranslatable" THEN Finish(1, "codegen") /\ UNCHANGED printed
     ELSE IF options.tac THEN Finish(0, "none") /\ Show({"tac"})
     ELSE Continue("run") /\ UNCHANGED printed
  /\ Kept /\ UNCHANGED disk

(* The output is printed when the program has ended, not before; an        *)
(* endless one is executed for ever, and its command never ends.           *)
Run ==
  /\ phase = "run" /\ outcome # "endless"
  /\ IF outcome = "failing" THEN Finish(1, "runtime") /\ UNCHANGED printed
     ELSE Finish(0, "none") /\ Show({"output"})
  /\ Kept /\ UNCHANGED disk

-----------------------------------------------------------------------------
PipelineInit ==
  /\ source \in Sources
  /\ disk = [f \in FileNames |-> NoFile]
  /\ options = [mode |-> "source"]
  /\ phase = "idle"
  /\ toks = << >> /\ tree = << >> /\ outcome = "none" /\ ast = << >> /\ printed = {}
  /\ exit = 0 /\ why = "none" /\ count = 0 /\ clean = TRUE

PipelineStep ==
  \/ Lex \/ RefuseTrace \/ ReadTokens \/ ReadTree \/ SaveTrace \/ ReportLexErrors \/ PassLexer
  \/ SaveTokens \/ Parse \/ SaveTree \/ Analyse \/ Report \/ Generate \/ Run

PipelineNext == (\E o \in Commands : Start(o)) \/ PipelineStep

PipelineSpec == PipelineInit /\ [][PipelineNext]_pipelineVars

-----------------------------------------------------------------------------
PipelineTypeOK ==
  /\ source \in Sources
  /\ \A f \in FileNames : /\ disk[f].kind \in {"none", "tokens", "tree", "ast", "bundle", "trace"}
                          /\ disk[f].by \in 0 .. count /\ disk[f].clean \in BOOLEAN
  /\ phase \in {"idle", "input", "lexed", "traced", "tokens", "parse", "tree", "analyse", "report",
                "generate", "run", "exited"}
  /\ outcome \in Outcomes \cup {"none"}
  /\ exit \in {-1, 0, 1} /\ count \in 0 .. MaxCommands
  /\ exit = -1 <=> phase \notin {"idle", "exited"}

(* A token file without tokens of several lines gives the parser back the  *)
(* tokens it was made of.                                                  *)
TokensReread ==
  phase = "tokens" /\ options.mode = "tokens" =>
    \/ \E n \in DOMAIN InputFile.of : IsMultiline(InputFile.of[n])
    \/ Stripped(Significant(toks)) = Stripped(Significant(InputFile.of))

(* What is read from a parse tree file differs from the tree that was      *)
(* saved, in what the builder uses of it, exactly if a leaf has no value,  *)
(* contains a word of a meta line, or, being a name or a literal, a square *)
(* bracket.  The same holds of a bundle unless a text contains a marker of *)
(* the section: the end marker in a leaf other than the last always cuts   *)
(* the tree; after the begin marker in the printed AST anything is read.   *)
TreeReread ==
  LET of == InputFile.of
      bundle == options.mode = "bundle"
  IN  phase = "tree" /\ options.mode \in {"tree", "bundle"} /\ (bundle => ~ IsMisled(InputFile)) =>
        /\ (bundle => ~ IsCut(of)) => (Essence(tree) = Essence(of) <=> ~ IsLossy(of))
        /\ bundle /\ (\E k \in 1 .. Len(of) - 1 : EndsIn(of[k])) => Essence(tree) # Essence(of)

(* Through however many files and commands it came: where no file on the   *)
(* way lost a part, and no bundle had a marker in one of its texts, a      *)
(* command analyses, translates and runs the source, with the source's     *)
(* verdict.                                                                *)
MeansTheSource ==
  clean /\ phase \in {"report", "generate", "run"} =>
    /\ source \in DOMAIN SourceTree /\ Essence(tree) = SourceTree[source]
    /\ outcome = source.verdict
    /\ ~ LexErrors(source)

(* Success means that everything asked for is there: each file was written *)
(* by this command, what was translated could be, and the program that ran *)
(* ended without an error.  Semantic errors are a failure, but leave the   *)
(* AST for inspection (README.md).                                         *)
AskedFiles ==
  {options.saveTree, options.saveAst}
    \cup (IF options.mode \in {"source", "tokens"} THEN {options.saveTokens} ELSE {})
    \cup (IF options.mode = "source" THEN {options.trace} ELSE {})

DoneAsAsked ==
  phase = "exited" /\ why # "usage" =>
    /\ exit = 0 /\ options.stop = "none" =>
         /\ \A f \in AskedFiles \ {NoName} : disk[f].by = count
         /\ outcome \in Verdicts \ {"faulty"}
         /\ options.tac <=> "tac" \in printed
         /\ options.run /\ ~options.tac <=> "output" \in printed
         /\ "tac" \in printed => outcome # "untranslatable"
         /\ "output" \in printed => outcome = "fine"
    /\ exit = 1 => printed \cap {"tac", "output"} = {}
    /\ why = "semantic" => IF options.saveAst = NoName THEN "ast" \in printed
                          ELSE disk[options.saveAst].by = count

(* What was saved as a parse tree can be read as one: "Read Milestone 2    *)
(* parse tree output for semantic analysis" (main.cpp:62).                 *)
SavedTreeIsRead ==
  phase = "tree" /\ options.mode = "tree" => Essence(tree) = Essence(InputFile.of)
=============================================================================
