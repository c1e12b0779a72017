-------------------------------- MODULE Syntax --------------------------------
(***************************************************************************)
(* The parse functions of parser.cpp as a table.  A rule is the sequence   *)
(* of what its function may go on with; the first alternative is taken     *)
(* whose look-ahead holds of the next tokens, and where none holds the     *)
(* function throws.  A body lists what is read then: token types, and      *)
(* rules of other functions.  A loop or an optional part of a function is  *)
(* a rule of its own, listed in Auxiliary: it builds no node.              *)
(***************************************************************************)
EXTENDS Integers, Sequences, FiniteSets, TLC

Relations == << "EQL", "NEQ", "GTR", "GEQ", "LSS", "LEQ" >>
Additive  == << "PLUS", "MINUS", "ORSY" >>
Multiplicative == << "TIMES", "IDIV", "RDIV", "IMOD", "ANDSY" >>
Signs     == << "PLUS", "MINUS" >>
Literals  == << "INTCON", "REALCON", "CHARCON", "STRING" >>

Members(s) == {s[n] : n \in 1 .. Len(s)}

(* Token types; EOF is what a look-ahead sees behind the last token.       *)
TokenTypes ==
  Members(Relations) \cup Members(Additive) \cup Members(Multiplicative) \cup Members(Literals)
    \cup {"IDENT", "NOTSY", "LPARENT", "RPARENT", "LBRACK", "RBRACK", "COMMA",
          "SEMICOLON", "PERIOD", "COLON", "BECOMES", "CONSTSY", "TYPESY", "VARSY",
          "FUNCTIONSY", "PROCEDURESY", "ARRAYSY", "RECORDSY", "PROGRAMSY",
          "BEGINSY", "IFSY", "CASESY", "REPEATSY", "WHILESY", "FORSY", "ENDSY",
          "ELSESY", "UNTILSY", "OFSY", "DOSY", "TOSY", "DOWNTOSY", "THENSY"}

Types == TokenTypes \cup {"EOF"}

-----------------------------------------------------------------------------
(* Alternatives: the n-th next token must be in look[n].                   *)

Else(body)        == [look |-> << >>, body |-> body]
When(S, body)     == [look |-> << S >>, body |-> body]
When2(S, T, body) == [look |-> << S, T >>, body |-> body]
When3(S, T, U, body) == [look |-> << S, T, U >>, body |-> body]

Always(body) == << Else(body) >>

(* One of some tokens, whichever comes.                                    *)
OneOf(types) == [n \in DOMAIN types |-> When({types[n]}, << types[n] >>)]

(* An optional part; a loop where the body ends in the rule's own name.    *)
Maybe(alternative) == << alternative, Else(<< >>) >>

Subprogram == {"PROCEDURESY", "FUNCTIONSY"}
DeclarationStart == {"CONSTSY", "TYPESY", "VARSY"} \cup Subprogram

-----------------------------------------------------------------------------
Declarations ==
  [Program |-> Always(<< "ProgramHeader", "DeclarationPart", "CompoundStatement", "PERIOD" >>),
   ProgramHeader |-> Always(<< "PROGRAMSY", "IDENT", "SEMICOLON" >>),
   IdentifierList |-> Always(<< "IDENT", "MoreIdentifiers" >>),
   MoreIdentifiers |-> Maybe(When({"COMMA"}, << "COMMA", "IDENT", "MoreIdentifiers" >>)),
   Block |-> Always(<< "DeclarationPart", "CompoundStatement" >>),
   DeclarationPart |-> Always(<< "Constants", "TypeNames", "Variables", "Subprograms" >>),
   Constants |-> Maybe(When({"CONSTSY"}, << "ConstDeclaration", "Constants" >>)),
   TypeNames |-> Maybe(When({"TYPESY"}, << "TypeDeclaration", "TypeNames" >>)),
   Variables |-> Maybe(When({"VARSY"}, << "VarDeclaration", "Variables" >>)),
   Subprograms |-> << When(Subprogram, << "SubprogramDeclarationPart", "Subprograms" >>),
                      When(Types \ DeclarationStart, << >>) >>,
   ConstDeclaration |-> Always(<< "CONSTSY", "ConstDefinition", "SEMICOLON", "MoreConstants" >>),
   MoreConstants |-> Maybe(When2({"IDENT"}, {"EQL"},
                             << "ConstDefinition", "SEMICOLON", "MoreConstants" >>)),
   ConstDefinition |-> Always(<< "IDENT", "EQL", "Constant" >>),
   TypeDeclaration |-> Always(<< "TYPESY", "TypeDefinition", "SEMICOLON", "MoreTypes" >>),
   MoreTypes |-> Maybe(When2({"IDENT"}, {"EQL"},
                         << "TypeDefinition", "SEMICOLON", "MoreTypes" >>)),
   TypeDefinition |-> Always(<< "IDENT", "EQL", "Type" >>),
   VarDeclaration |->
     Always(<< "VARSY", "IdentifierList", "COLON", "Type", "SEMICOLON", "MoreVariables" >>),
   MoreVariables |->
     Maybe(When({"IDENT"}, << "IdentifierList", "COLON", "Type", "SEMICOLON", "MoreVariables" >>))]

SubprogramRules ==
  [SubprogramDeclarationPart |-> Always(<< "SubprogramDeclaration", "SEMICOLON", "MoreSubprograms" >>),
   MoreSubprograms |->
     Maybe(When(Subprogram, << "SubprogramDeclaration", "SEMICOLON", "MoreSubprograms" >>)),
   SubprogramDeclaration |-> << When({"PROCEDURESY"}, << "ProcedureDeclaration" >>),
                                When({"FUNCTIONSY"}, << "FunctionDeclaration" >>) >>,
   ProcedureDeclaration |-> Always(<< "ProcedureHeading", "SEMICOLON", "Block" >>),
   FunctionDeclaration |-> Always(<< "FunctionHeading", "SEMICOLON", "Block" >>),
   ProcedureHeading |-> Always(<< "PROCEDURESY", "IDENT", "Parameters" >>),
   FunctionHeading |-> Always(<< "FUNCTIONSY", "IDENT", "Parameters", "COLON", "IDENT" >>),
   Parameters |-> Maybe(When({"LPARENT"}, << "FormalParameterList" >>)),
   FormalParameterList |-> Always(<< "LPARENT", "ParameterGroup", "MoreGroups", "RPARENT" >>),
   MoreGroups |-> Maybe(When({"SEMICOLON"}, << "SEMICOLON", "ParameterGroup", "MoreGroups" >>)),
   ParameterGroup |-> Always(<< "IdentifierList", "COLON", "ParameterType" >>),
   ParameterType |-> << When({"ARRAYSY"}, << "ArrayType" >>), Else(<< "IDENT" >>) >>]

TypeRules ==
  [Type |-> << When({"ARRAYSY"}, << "ArrayType" >>), When({"RECORDSY"}, << "RecordType" >>),
               When({"LPARENT"}, << "Enumerated" >>),
               When3({"IDENT"}, {"PERIOD"}, {"PERIOD"}, << "Range" >>),
               When({"IDENT"}, << "IDENT" >>),
               When(Members(Literals) \cup Members(Signs), << "Range" >>) >>,
   ArrayType |-> Always(<< "ARRAYSY", "LBRACK", "Dimensions", "RBRACK", "OFSY", "Type" >>),
   Dimensions |-> << When2({"IDENT"}, {"RBRACK"}, << "IDENT" >>), Else(<< "Range", "MoreRanges" >>) >>,
   MoreRanges |-> Maybe(When({"COMMA"}, << "COMMA", "Range", "MoreRanges" >>)),
   Range |-> Always(<< "Constant", "PERIOD", "PERIOD", "Constant" >>),
   Enumerated |-> Always(<< "LPARENT", "IdentifierList", "RPARENT" >>),
   RecordType |-> Always(<< "RECORDSY", "FieldList", "ENDSY" >>),
   FieldList |-> Always(<< "FieldPart", "MoreFields" >>),
   MoreFields |-> << When3({"SEMICOLON"}, {"IDENT"}, Types \ {"CONSTSY", "TYPESY"},
                           << "SEMICOLON", "FieldPart", "MoreFields" >>),
                     When({"SEMICOLON"}, << "SEMICOLON" >>), Else(<< >>) >>,
   FieldPart |-> Always(<< "IdentifierList", "COLON", "Type" >>)]

ConstantRules ==
  [Constant |-> Always(<< "Sign", "ConstantValue" >>),
   Sign |-> OneOf(Signs) \o Always(<< >>),
   ConstantValue |-> OneOf(Literals) \o OneOf(<< "IDENT" >>)]

(* A statement that starts with a variable is decided behind it: the       *)
(* variable's node is handed to the node of the assignment or of the call. *)
Statements ==
  [CompoundStatement |-> Always(<< "BEGINSY", "StatementList", "ENDSY" >>),
   StatementList |-> Always(<< "Statement", "MoreStatements" >>),
   MoreStatements |-> Maybe(When({"SEMICOLON"}, << "SEMICOLON", "Statement", "MoreStatements" >>)),
   Statement |-> << When2({"IDENT"}, {"BECOMES"}, << "Variable", "AssignmentStatement" >>),
                    When2({"IDENT"}, {"LBRACK", "PERIOD"}, << "Variable", "AfterVariable" >>),
                    When({"IDENT"}, << "ProcedureFunctionCall" >>),
                    When({"BEGINSY"}, << "CompoundStatement" >>),
                    When({"IFSY"}, << "IfStatement" >>),
                    When({"CASESY"}, << "CaseStatement" >>),
                    When({"REPEATSY"}, << "RepeatStatement" >>),
                    When({"WHILESY"}, << "WhileStatement" >>),
                    When({"FORSY"}, << "ForStatement" >>),
                    Else(<< "Empty" >>) >>,
   AfterVariable |-> << When({"BECOMES"}, << "AssignmentStatement" >>), Else(<< "BareCall" >>) >>,
   AssignmentStatement |-> Always(<< "BECOMES", "Expression" >>),
   BareCall |-> Always(<< >>),
   Empty |-> Always(<< >>),
   ProcedureFunctionCall |-> Always(<< "IDENT", "CallArguments" >>),
   CallArguments |-> Maybe(When({"LPARENT"}, << "LPARENT", "Arguments", "RPARENT" >>)),
   Arguments |-> << When({"RPARENT"}, << >>), Else(<< "ParameterList" >>) >>]

Structured ==
  [IfStatement |-> Always(<< "IFSY", "Expression", "THENSY", "Statement", "ElsePart" >>),
   ElsePart |-> Maybe(When({"ELSESY"}, << "ELSESY", "Statement" >>)),
   CaseStatement |->
     Always(<< "CASESY", "Expression", "OFSY", "CaseBlock", "MoreCases", "ENDSY" >>),
   MoreCases |-> << When2({"SEMICOLON"}, Types \ {"ENDSY"}, << "SEMICOLON", "CaseBlock", "MoreCases" >>),
                    When({"SEMICOLON"}, << "SEMICOLON" >>), Else(<< >>) >>,
   CaseBlock |-> Always(<< "Constant", "MoreLabels", "COLON", "Statement" >>),
   MoreLabels |-> Maybe(When({"COMMA"}, << "COMMA", "Constant", "MoreLabels" >>)),
   RepeatStatement |-> Always(<< "REPEATSY", "StatementList", "UNTILSY", "Expression" >>),
   WhileStatement |-> Always(<< "WHILESY", "Expression", "DOSY", "CompoundStatement" >>),
   ForStatement |-> Always(<< "FORSY", "IDENT", "BECOMES", "Expression", "Direction",
                              "Expression", "DOSY", "CompoundStatement" >>),
   Direction |-> OneOf(<< "TOSY", "DOWNTOSY" >>)]

Expressions ==
  [ParameterList |-> Always(<< "Expression", "MoreExpressions" >>),
   MoreExpressions |-> Maybe(When({"COMMA"}, << "COMMA", "Expression", "MoreExpressions" >>)),
   Expression |-> Always(<< "SimpleExpression", "Comparison" >>),
   Comparison |-> Maybe(When(Members(Relations), << "RelationalOperator", "SimpleExpression" >>)),
   RelationalOperator |-> OneOf(Relations),
   SimpleExpression |-> Always(<< "Sign", "Term", "MoreTerms" >>),
   MoreTerms |-> Maybe(When(Members(Additive), << "AdditiveOperator", "Term", "MoreTerms" >>)),
   AdditiveOperator |-> OneOf(Additive),
   Term |-> Always(<< "Factor", "MoreFactors" >>),
   MoreFactors |->
     Maybe(When(Members(Multiplicative), << "MultiplicativeOperator", "Factor", "MoreFactors" >>)),
   MultiplicativeOperator |-> OneOf(Multiplicative),
   Factor |-> << When({"LPARENT"}, << "LPARENT", "Expression", "RPARENT" >>),
                 When({"NOTSY"}, << "NOTSY", "Factor" >>),
                 When2({"IDENT"}, {"LPARENT"}, << "ProcedureFunctionCall" >>),
                 When({"IDENT"}, << "Variable" >>) >> \o OneOf(Literals),
   Variable |-> Always(<< "IDENT", "Selectors" >>),
   Selectors |-> Maybe(When({"LBRACK", "PERIOD"}, << "ComponentVariable", "Selectors" >>)),
   ComponentVariable |-> << When({"LBRACK"}, << "LBRACK", "IndexList", "RBRACK" >>),
                            When({"PERIOD"}, << "PERIOD", "IDENT" >>) >>,
   IndexList |-> Always(<< "Expression", "MoreExpressions" >>)]

Rule ==
  Declarations @@ TypeRules @@ SubprogramRules @@ Statements @@ Structured @@ Expressions
    @@ ConstantRules

NonTerminals == DOMAIN Rule

(* Rules that are loops or parts of a function and make no node.           *)
Auxiliary ==
  {"MoreIdentifiers", "Constants", "TypeNames", "Variables", "Subprograms", "MoreConstants",
   "MoreTypes", "MoreVariables", "MoreSubprograms", "Parameters", "MoreGroups", "ParameterType",
   "Dimensions", "MoreRanges", "MoreFields", "Sign", "ConstantValue", "MoreStatements",
   "AfterVariable", "CallArguments", "Arguments", "ElsePart", "MoreCases", "MoreLabels",
   "Direction", "MoreExpressions", "Comparison", "MoreTerms", "MoreFactors", "Selectors"}

(* What the node of a rule is called.                                      *)
Label == [n \in NonTerminals |-> CASE n \in Auxiliary -> "none"
                                   [] n = "BareCall" -> "ProcedureFunctionCall"
                                   [] OTHER -> n]

(* Rules whose node gets the node built last as its first child.           *)
Adopting == {"AssignmentStatement", "BareCall"}
=============================================================================
