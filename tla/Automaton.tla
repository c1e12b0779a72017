------------------------------ MODULE Automaton ------------------------------
(***************************************************************************)
(* The lexer's automaton: DFA of dfa.cpp, loaded with                      *)
(* config/config_lexer.txt.  Its 137 states are a dozen for literals and   *)
(* operators, one per prefix of a keyword, and one for any other           *)
(* identifier.  A character is a string of length one.                     *)
(***************************************************************************)
EXTENDS Integers, Sequences, FiniteSets

Digits  == {"0", "1", "2", "3", "4", "5", "6", "7", "8", "9"}
Capital == << "A", "B", "C", "D", "E", "F", "G", "H", "I", "J", "K", "L", "M",
              "N", "O", "P", "Q", "R", "S", "T", "U", "V", "W", "X", "Y", "Z" >>
Small   == << "a", "b", "c", "d", "e", "f", "g", "h", "i", "j", "k", "l", "m",
              "n", "o", "p", "q", "r", "s", "t", "u", "v", "w", "x", "y", "z" >>

Comma     == ","
Semicolon == ";"

Letters == {Capital[n] : n \in 1 .. 26} \cup {Small[n] : n \in 1 .. 26}
Alphanumeric == Letters \cup Digits

Upper(c) == IF \E n \in 1 .. 26 : Small[n] = c
            THEN Capital[CHOOSE n \in 1 .. 26 : Small[n] = c]
            ELSE c

CONSTANTS
  Chars,      \* the characters that occur
  HighChars   \* those of codes above 127, where the table ends: outside of
              \* comments no arrow is labelled with them

ASSUME HighCharsAssumption == "'" \notin HighChars

Keyword ==
  { << <<"A","N","D">>, "ANDSY" >>, << <<"A","R","R","A","Y">>, "ARRAYSY" >>,
    << <<"B","E","G","I","N">>, "BEGINSY" >>, << <<"C","A","S","E">>, "CASESY" >>,
    << <<"C","O","N","S","T">>, "CONSTSY" >>, << <<"D","I","V">>, "IDIV" >>,
    << <<"D","O">>, "DOSY" >>, << <<"D","O","W","N","T","O">>, "DOWNTOSY" >>,
    << <<"E","L","S","E">>, "ELSESY" >>, << <<"E","N","D">>, "ENDSY" >>,
    << <<"F","O","R">>, "FORSY" >>, << <<"I","F">>, "IFSY" >>,
    << <<"F","U","N","C","T","I","O","N">>, "FUNCTIONSY" >>,
    << <<"M","O","D">>, "IMOD" >>, << <<"N","O","T">>, "NOTSY" >>,
    << <<"O","F">>, "OFSY" >>, << <<"O","R">>, "ORSY" >>,
    << <<"P","R","O","C","E","D","U","R","E">>, "PROCEDURESY" >>,
    << <<"P","R","O","G","R","A","M">>, "PROGRAMSY" >>,
    << <<"R","E","C","O","R","D">>, "RECORDSY" >>,
    << <<"R","E","P","E","A","T">>, "REPEATSY" >>, << <<"T","O">>, "TOSY" >>,
    << <<"T","H","E","N">>, "THENSY" >>, << <<"T","Y","P","E">>, "TYPESY" >>,
    << <<"U","N","T","I","L">>, "UNTILSY" >>, << <<"V","A","R">>, "VARSY" >>,
    << <<"W","H","I","L","E">>, "WHILESY" >> }

KeywordPrefixes ==
  UNION {{SubSeq(k[1], 1, n) : n \in 1 .. Len(k[1])} : k \in Keyword}

-----------------------------------------------------------------------------
(* States.  word is the upper-case prefix read so far of a keyword.        *)

At(name)  == [at |-> name, word |-> << >>]
Start     == At("start")
Null      == At("null")

Word(w) == IF w \in KeywordPrefixes THEN [at |-> "word", word |-> w]
                                    ELSE At("identifier")

(* Arrows of the states for literals and operators: <<from, labels, to>>.  *)
NumberArrow ==
  {<< "start", Digits, "integer" >>,   << "integer", Digits, "integer" >>,
   << "integer", {"."}, "point" >>,    << "integer", Letters, "stale" >>,
   << "point", Digits, "real" >>,      << "point", {"."}, "dots" >>,
   << "real", Digits, "real" >>,       << "real", Letters, "stale" >>,
   << "dots", Digits, "range" >>,      << "range", Digits, "range" >>}

(* A quoted literal goes on over everything but a quote and a line break.  *)
Plain == Chars \ (HighChars \cup {"'", "\n"})

QuoteArrow ==
  {<< "start", {"'"}, "quote" >>,      << "quote", {"'"}, "empty" >>,
   << "quote", Plain, "one" >>,        << "quote", {"\n"}, "stale" >>,
   << "empty", {"'"}, "one" >>,        << "one", {"'"}, "char" >>,
   << "one", Plain, "many" >>,         << "one", {"\n"}, "stale" >>,
   << "char", {"'"}, "many" >>,        << "many", Plain, "many" >>,
   << "many", {"'"}, "string" >>,      << "many", {"\n"}, "stale" >>,
   << "string", {"'"}, "many" >>}

SignArrow ==
  {<< "start", {"="}, "=" >>,          << "=", {"="}, "==" >>,
   << "start", {"<"}, "<" >>,          << "<", {"="}, "<=" >>,
   << "<", {">"}, "<>" >>,             << "start", {">"}, ">" >>,
   << ">", {"="}, ">=" >>,             << "start", {":"}, ":" >>,
   << ":", {"="}, ":=" >>,             << "start", {"("}, "(" >>,
   << "(", {"*"}, "(*" >>}

SingleArrow ==
  {<< "start", {c}, c >> : c \in {"+", "-", "*", "/", ")", "[", "]", Comma, Semicolon, "."}}

Arrow == NumberArrow \cup QuoteArrow \cup SignArrow \cup SingleArrow

(* The token accepted in a state; q4_2 is made final by loadConfig.        *)
Accepted ==
  [integer |-> "INTCON", real |-> "REALCON", range |-> "RANGE",
   empty |-> "STRING", char |-> "CHARCON", string |-> "STRING",
   identifier |-> "IDENT", stale |-> "UNKNOWN"]

Operator ==
  {<< "+", "PLUS" >>, << "-", "MINUS" >>, << "*", "TIMES" >>, << "/", "RDIV" >>,
   << "==", "EQL" >>, << "<>", "NEQ" >>, << ">", "GTR" >>, << ">=", "GEQ" >>,
   << "<", "LSS" >>, << "<=", "LEQ" >>, << "(", "LPARENT" >>,
   << ")", "RPARENT" >>, << "[", "LBRACK" >>, << "]", "RBRACK" >>,
   << Comma, "COMMA" >>, << Semicolon, "SEMICOLON" >>, << ".", "PERIOD" >>,
   << ":", "COLON" >>, << ":=", "BECOMES" >>}

(* The type found under a key in one of the two tables.                    *)
Find(table, key) == (CHOOSE e \in table : e[1] = key)[2]

TokenFor(s) ==
  IF s.at = "word"
  THEN IF \E k \in Keyword : k[1] = s.word THEN Find(Keyword, s.word) ELSE "IDENT"
  ELSE IF s.at \in DOMAIN Accepted THEN Accepted[s.at]
  ELSE IF \E o \in Operator : o[1] = s.at THEN Find(Operator, s.at)
  ELSE "none"

IsFinal(s) == TokenFor(s) # "none"

(* Final, with a token other than UNKNOWN.                                 *)
IsAccepting(s) == TokenFor(s) \notin {"none", "UNKNOWN"}

(* In ten prefixes the table has no arrow for one more of the last letter. *)
Gap ==
  { <<"A">>, <<"E">>, <<"P">>, <<"A","N">>, <<"F","O">>, <<"A","N","D">>,
    <<"A","R","R">>, <<"C","A","S">>, <<"A","R","R","A","Y">>,
    <<"D","O","W","N","T","O">> }

HasGap(w, c) == w \in Gap /\ Upper(c) = w[Len(w)]

(* Mutant: a keyword ends as soon as it is complete.                       *)
WordNextEager(s, c) ==
  IF TokenFor(s) # "IDENT" \/ c \notin Alphanumeric THEN Null
  ELSE IF s.at = "identifier" THEN s
  ELSE Word(Append(s.word, Upper(c)))

WordNext(s, c) ==
  IF c \notin Alphanumeric THEN Null
  ELSE IF s.at = "identifier" THEN s
  ELSE IF HasGap(s.word, c) THEN Null
  ELSE Word(Append(s.word, Upper(c)))

LiteralNext(s, c) ==
  LET taken == {a \in Arrow : a[1] = s.at /\ c \in a[2]}
  IN  IF taken = {} THEN Null ELSE At((CHOOSE a \in taken : TRUE)[3])

NextState(s, c) ==
  IF s.at \in {"word", "identifier"} THEN WordNext(s, c)
  ELSE IF s.at = "start" /\ c \in Letters THEN Word(<< Upper(c) >>)
  ELSE LiteralNext(s, c)
=============================================================================
