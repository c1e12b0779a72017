------------------------------- MODULE MCLexer -------------------------------
(* Every text up to a length over a few small alphabets, each chosen for   *)
(* one part of the lexer, and some longer texts.                           *)
EXTENDS Lexer

Texts(alphabet, n) == UNION {[1 .. m -> alphabet] : m \in 0 .. n}

(* Numbers, ranges, names.                                                 *)
Numbers == Texts({"1", ".", "x", "-", " "}, 5)
Quotes == Texts({"'", "a", " ", "\n", ";"}, 5)
Comments == Texts({"(", "*", ")", "{", "}", "a"}, 5)
(* Words around a keyword with a gap, one of the two spellings each.       *)
Names == Texts({"a", "N", "d", "_", "1"}, 5)
Symbolic == Texts({"<", "=", ">", ":", "/", "^"}, 4)

Longer ==
  { << "a", "r", "R", "a", "y", "Y", "1", ";" >>, << "d","o","w","n","t","o","o" >>,
    << "b", "e", "g", "i", "n", "\t", "x", "1", ":", "=", "1", ".", ".", "2", ".", "5" >>,
    << "'", "'", "'", "'", "'", "'", "'", "'" >>,
    << "'", "a", "'", "'", "'", "'", "^", "b", "'", ",", "[", "+", "]" >>,
    << "c", "a", "s", "s", "e", "\r", "\n", "F", "o", "o", "D", "i", "v", "o" >>,
    << "{", "\n", "'", "*", ")", "e", "E", "1", "*", "(", "*", ")" >> }

MCHighChars == {"^"}
MCChars == Letters \cup Digits \cup Boundary \cup {"_", "^"}
(* Words that begin like a keyword.                                       *)
MCKeywords == Texts({"a", "N", "d", " "}, 4)

MCInputs == Numbers \cup Quotes \cup Comments \cup Names \cup Symbolic \cup Longer
=============================================================================
