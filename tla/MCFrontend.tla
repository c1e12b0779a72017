------------------------------ MODULE MCFrontend ------------------------------
(***************************************************************************)
(* The sample programs in both styles; all sentences up to a length, in    *)
(* several places of a program, over the token types that matter there;    *)
(* and all sequences of these types up to a shorter length.                *)
(***************************************************************************)
EXTENDS Frontend

Syntax  == INSTANCE Syntax
Samples == INSTANCE SamplePrograms

MCPrograms ==
  << Samples!Factorial, Samples!Nesting, Samples!Siblings, Samples!Arrays, Samples!Loops,
     Samples!Cases, Samples!Records, Samples!Conditions, Samples!Returns, Samples!Locals,
     Samples!Numbers, Samples!Reads, Samples!Runaway, Samples!NamedRecord,
     Samples!ArrayArgument, Samples!AllForms >>

MCTable     == Syntax!Rule
MCTerminals == Syntax!TokenTypes
MCNamed     == Syntax!Label
MCTaking    == Syntax!Adopting

MCSampleValue ==
  [t \in MCTerminals |-> CASE t = "REALCON" -> << 1, 2 >> [] t = "STRING" -> << >>
                           [] t = "IDENT" -> "x" [] OTHER -> 1]

-----------------------------------------------------------------------------
(* What a symbol derives in at most n tokens of the given types.           *)
Yield(symbol, n, types) ==
  LET Words[symbols \in Seq(STRING), m \in Nat] ==
        IF symbols = << >> THEN {<< >>}
        ELSE IF Cardinality({k \in DOMAIN symbols : symbols[k] \in MCTerminals}) > m THEN {}
        ELSE IF Head(symbols) \in MCTerminals THEN
               IF Head(symbols) \notin types THEN {}
               ELSE {<< Head(symbols) >> \o rest : rest \in Words[Tail(symbols), m - 1]}
        ELSE UNION {Words[MCTable[Head(symbols)][k].body \o Tail(symbols), m] :
                      k \in DOMAIN MCTable[Head(symbols)]}
  IN  Words[<< symbol >>, n]

Heading  == << "PROGRAMSY", "IDENT", "SEMICOLON" >>
NoBody   == << "BEGINSY", "ENDSY", "PERIOD" >>
InBody   == Heading \o << "BEGINSY" >>
BodyEnd  == << "ENDSY", "PERIOD" >>

(* A place in a program: what precedes and follows, what stands there, the *)
(* types to use, the length of sentences and of all sequences.             *)
Place(before, goal, after, types, n, m) ==
  [before |-> before, goal |-> goal, after |-> after, types |-> types, n |-> n, m |-> m]

MCPlaces ==
  { Place(InBody, "StatementList", BodyEnd,
          {"IDENT", "BECOMES", "LPARENT", "RPARENT", "LBRACK", "RBRACK", "PERIOD", "COMMA"}, 8, 3),
    Place(InBody, "StatementList", BodyEnd,
          {"IFSY", "THENSY", "ELSESY", "IDENT", "SEMICOLON", "BEGINSY", "ENDSY"}, 6, 3),
    Place(InBody, "StatementList", BodyEnd,
          {"CASESY", "OFSY", "IDENT", "COLON", "SEMICOLON", "COMMA", "MINUS", "ENDSY"}, 10, 2),
    Place(InBody, "StatementList", BodyEnd,
          {"WHILESY", "REPEATSY", "FORSY", "DOSY", "TOSY", "UNTILSY", "BEGINSY", "ENDSY", "IDENT",
           "BECOMES"}, 11, 2),
    Place(InBody \o << "IDENT", "BECOMES" >>, "Expression", BodyEnd,
          {"IDENT", "MINUS", "TIMES", "EQL", "NOTSY", "LPARENT", "RPARENT"}, 5, 3),
    Place(Heading \o << "TYPESY", "IDENT", "EQL" >>, "Type", << "SEMICOLON" >> \o NoBody,
          {"IDENT", "PERIOD", "LPARENT", "RPARENT", "COMMA", "ARRAYSY", "LBRACK", "RBRACK", "OFSY",
           "RECORDSY", "ENDSY", "COLON", "SEMICOLON", "CHARCON", "MINUS"}, 10, 2),
    Place(Heading, "DeclarationPart", NoBody,
          {"CONSTSY", "TYPESY", "VARSY", "IDENT", "EQL", "COLON", "SEMICOLON", "COMMA"}, 14, 2),
    Place(Heading, "DeclarationPart", NoBody,
          {"PROCEDURESY", "FUNCTIONSY", "IDENT", "COLON", "SEMICOLON", "LPARENT", "RPARENT",
           "BEGINSY", "ENDSY"}, 13, 2) }

Strings(types, m) == UNION {[1 .. k -> types] : k \in 0 .. m}

MCSentences ==
  UNION {{p.before \o s \o p.after : s \in Yield(p.goal, p.n, p.types)} : p \in MCPlaces}

MCInputs ==
  UNION {{p.before \o s \o p.after : s \in Strings(p.types, p.m)} : p \in MCPlaces}
    \cup {<< >>, Heading, Heading \o NoBody \o << "SEMICOLON" >>}
=============================================================================
