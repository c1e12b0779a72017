----------------------------- MODULE LexemeProofs ------------------------------
(***************************************************************************)
(* The lexer's longest match, and the values of its quoted literals:       *)
(* proved for every set of characters and every input.                     *)
(*                                                                         *)
(* The table is compared with the shapes of the tokens in three parts.     *)
(* What is read before the automaton is in a state has the form of that    *)
(* state (Form, FormGrows); a text of the form of an accepting state has   *)
(* the shape of the token accepted (AcceptedShape); and with a character   *)
(* the state has no arrow for, no text goes on to be a token               *)
(* (AcceptedLongest).  The rest is about the loops: FormInv says that the  *)
(* lexeme has the form of the state, LongestInv that every token written   *)
(* so far is as long as it can be.                                         *)
(***************************************************************************)
EXTENDS LexerProofs, Induction

-----------------------------------------------------------------------------
(* Kinds of characters.                                                    *)

LetterList ==
  {"A", "B", "C", "D", "E", "F", "G", "H", "I", "J", "K", "L", "M",
   "N", "O", "P", "Q", "R", "S", "T", "U", "V", "W", "X", "Y", "Z",
   "a", "b", "c", "d", "e", "f", "g", "h", "i", "j", "k", "l", "m",
   "n", "o", "p", "q", "r", "s", "t", "u", "v", "w", "x", "y", "z"}

LEMMA LettersListed == \A c \in Letters : c \in LetterList
<1>1. \A n \in 1 .. 26 : Capital[n] \in LetterList
  BY DEF Capital, LetterList
<1>2. \A n \in 1 .. 26 : Small[n] \in LetterList
  BY DEF Small, LetterList
<1> QED
  BY <1>1, <1>2 DEF Letters

SignMarks == {"+", "-", "*", "/", "<", ">", "(", ")", "[", "]", ".", ":", "="}

Signs == SignMarks \cup {Comma, Semicolon}

LEMMA Kinds ==
  /\ \A c \in Letters : c \notin Digits /\ c \notin Signs /\ c # "'"
  /\ \A c \in Digits : c \notin Signs /\ c # "'"
  /\ "'" \notin Signs
<1>1. \A c \in LetterList : c \notin Digits /\ c \notin SignMarks /\ c # "'"
  BY SMTT(60) DEF LetterList, Digits, SignMarks
<1>2. \A c \in Digits : c \notin SignMarks /\ c # "'"
  BY DEF Digits, SignMarks
<1>3. /\ Comma \notin LetterList /\ Comma \notin Digits /\ Comma # "'"
      /\ Semicolon \notin LetterList /\ Semicolon \notin Digits /\ Semicolon # "'"
  BY Zenon DEF Comma, Semicolon, LetterList, Digits
<1>4. "'" \notin SignMarks
  BY DEF SignMarks
<1> QED
  BY <1>1, <1>2, <1>3, <1>4, LettersListed DEF Signs

Doubles == { <<"=", "=">>, <<"<", ">">>, <<">", "=">>, <<"<", "=">>, <<":", "=">> }

(* What a symbol starts with.                                              *)
LEMMA SymbolsStart ==
  ASSUME NEW s \in Symbols
  PROVE  /\ s[1] \in Signs /\ Len(s) \in {1, 2}
         /\ Len(s) = 2 => /\ s[1] \in {"=", "<", ">", ":"}
                          /\ s[1] = "=" => s[2] = "="
                          /\ s[1] = "<" => s[2] \in {"=", ">"}
                          /\ s[1] \in {">", ":"} => s[2] = "="
<1>1. CASE s \in {<< c >> : c \in {"+", "-", "*", "/", "<", ">", "(", ")", "[", "]", Comma,
                                   Semicolon, ".", ":"}}
  <2>1. PICK c \in {"+", "-", "*", "/", "<", ">", "(", ")", "[", "]", Comma, Semicolon, ".", ":"} :
           s = << c >>
    BY <1>1
  <2>2. Len(s) = 1 /\ s[1] = c
    BY <2>1
  <2>3. c \in Signs
    BY DEF Signs, SignMarks
  <2> QED
    BY <2>2, <2>3
<1>2. CASE s \in Doubles
  <2>1. /\ Len(s) = 2 /\ s[1] \in {"=", "<", ">", ":"}
        /\ \/ s[1] = "=" /\ s[2] = "="
           \/ s[1] = "<" /\ s[2] \in {">", "="}
           \/ s[1] = ">" /\ s[2] = "="
           \/ s[1] = ":" /\ s[2] = "="
    BY <1>2 DEF Doubles
  <2>2. s[1] \in Signs
    BY <2>1 DEF Signs, SignMarks
  <2> QED
    BY <2>1, <2>2
<1> QED
  BY <1>1, <1>2 DEF Symbols, Doubles

LEMMA TokenStarts ==
  ASSUME NEW s \in Seq(Chars), IsToken(s)
  PROVE  /\ s[1] \in Letters => IsWord(s)
         /\ s[1] \in Digits => AllIn(s, Digits) \/ IsReal(s)
         /\ s[1] = "'" => IsQuoted(s)
         /\ s[1] \in Signs => s \in Symbols
<1>2. IsWord(s) => s[1] \in Letters
  BY DEF IsWord
<1>3. IsReal(s) => s[1] \in Digits
  <2> SUFFICES ASSUME IsReal(s) PROVE s[1] \in Digits
    OBVIOUS
  <2>1. PICK d \in 2 .. Len(s) - 1 : AllIn(SubSeq(s, 1, d - 1), Digits)
    BY DEF IsReal
  <2>2. d - 1 >= 1 /\ d - 1 \in Int /\ Len(SubSeq(s, 1, d - 1)) = d - 1
        /\ SubSeq(s, 1, d - 1)[1] = s[1]
    BY <2>1
  <2> QED
    BY <2>1, <2>2 DEF AllIn
<1>4. AllIn(s, Digits) => s[1] \in Digits
  BY DEF AllIn
<1>5. IsQuoted(s) => s[1] = "'"
  BY DEF IsQuoted
<1>6. s \in Symbols => s[1] \in Signs
  BY SymbolsStart
<1> QED
  BY <1>2, <1>3, <1>4, <1>5, <1>6, Kinds DEF IsToken

-----------------------------------------------------------------------------
(* What is read before the automaton is in a state.                        *)

Uppers(s) == [n \in DOMAIN s |-> Upper(s[n])]

(* Some beginning of the text begins no keyword.                           *)
LeavesKeywords(s) == \E n \in 1 .. Len(s) : SubSeq(Uppers(s), 1, n) \notin KeywordPrefixes

DigitsFrom(s, a, b) == \A n \in a .. b : s[n] \in Digits

(* W: the places of a literal up to which a quote waits for its second.    *)
Pairs(s, W) ==
  /\ W \subseteq 2 .. Len(s)
  /\ \A n \in 2 .. Len(s) : /\ n \in W <=> s[n] = "'" /\ n - 1 \notin W
                            /\ n - 1 \in W => s[n] = "'"

QuotesOf(s, W) ==
  /\ Len(s) >= 1 /\ s[1] = "'"
  /\ \A n \in 2 .. Len(s) : s[n] \notin HighChars /\ s[n] # "\n"
  /\ Pairs(s, W)

(* Of a literal that goes on, and of one that may end: its last quote is   *)
(* the first of two or the closing one.                                    *)
IsOpen(s)   == \E W \in SUBSET (2 .. Len(s)) : QuotesOf(s, W) /\ Len(s) \notin W
IsClosed(s) == \E W \in SUBSET (2 .. Len(s)) : QuotesOf(s, W) /\ Len(s) \in W

IsRange(s) ==
  \E d \in 2 .. Len(s) - 2 :
     /\ DigitsFrom(s, 1, d - 1) /\ s[d] = "." /\ s[d + 1] = "." /\ DigitsFrom(s, d + 2, Len(s))

OpenStates   == {"quote", "one", "many"}
ClosedStates == {"empty", "char", "string"}

Form(st, s) ==
  /\ st.at = "start" => s = << >>
  /\ st.at = "word" => IsWord(s) /\ Uppers(s) = st.word /\ st.word \in KeywordPrefixes
  /\ st.at = "identifier" => IsWord(s) /\ LeavesKeywords(s)
  /\ st.at = "integer" => AllIn(s, Digits)
  /\ st.at = "point" => Len(s) >= 2 /\ DigitsFrom(s, 1, Len(s) - 1) /\ s[Len(s)] = "."
  /\ st.at = "real" => IsReal(s)
  /\ st.at = "dots" => /\ Len(s) >= 3 /\ DigitsFrom(s, 1, Len(s) - 2)
                       /\ s[Len(s) - 1] = "." /\ s[Len(s)] = "."
  /\ st.at = "range" => IsRange(s)
  /\ st.at \in OpenStates => IsOpen(s)
  /\ st.at \in ClosedStates => IsClosed(s)
  /\ st.at \in Signs => s = << st.at >>
  /\ st.at = "==" => s = << "=", "=" >>
  /\ st.at = "<=" => s = << "<", "=" >>
  /\ st.at = "<>" => s = << "<", ">" >>
  /\ st.at = ">=" => s = << ">", "=" >>
  /\ st.at = ":=" => s = << ":", "=" >>

(* Where the arrows lead.                                                  *)
Arrival(from, c, to) ==
  /\ to \notin {"word", "identifier", "start", "null"}
  /\ to = "integer" => from \in {"start", "integer"} /\ c \in Digits
  /\ to = "point" => from = "integer" /\ c = "."
  /\ to = "real" => from \in {"point", "real"} /\ c \in Digits
  /\ to = "dots" => from = "point" /\ c = "."
  /\ to = "range" => from \in {"dots", "range"} /\ c \in Digits
  /\ to = "quote" => from = "start" /\ c = "'"
  /\ to \in {"one", "many"} => \/ from \in ClosedStates /\ c = "'"
                               \/ from \in OpenStates /\ c \in Plain
  /\ to \in ClosedStates => from \in OpenStates /\ c = "'"
  /\ to \in Signs => from = "start" /\ c = to
  /\ to = "==" => from = "=" /\ c = "="
  /\ to = "<=" => from = "<" /\ c = "="
  /\ to = "<>" => from = "<" /\ c = ">"
  /\ to = ">=" => from = ">" /\ c = "="
  /\ to = ":=" => from = ":" /\ c = "="

ArrivalOf(a) == \A c \in a[2] : Arrival(a[1], c, a[3])

(* The names of states that are words or two signs.                        *)
Names == {"start", "null", "word", "identifier", "integer", "point", "real", "dots", "range",
          "quote", "empty", "one", "char", "many", "string", "stale",
          "==", "<=", "<>", ">=", ":=", "(*"}

LEMMA NamesAreNoSigns == \A at \in Names : at \notin Signs
<1>1. \A at \in Names : at \notin SignMarks
  BY DEF Names, SignMarks
<1>2. Comma \notin Names /\ Semicolon \notin Names
  BY Zenon DEF Names, Comma, Semicolon
<1> QED
  BY <1>1, <1>2 DEF Signs

LEMMA Arrivals == \A a \in Arrow : ArrivalOf(a)
<1>1. \A a \in NumberArrow : ArrivalOf(a)
  <2>1. \A a \in NumberArrow : a[3] \in Names
    BY DEF NumberArrow, Names
  <2>2. \A a \in NumberArrow : a[3] \notin Signs
    BY <2>1, NamesAreNoSigns
  <2> QED
    BY <2>2 DEF NumberArrow, ArrivalOf, Arrival, ClosedStates
<1>2. \A a \in QuoteArrow : ArrivalOf(a)
  <2>1. \A a \in QuoteArrow : a[3] \in Names
    BY DEF QuoteArrow, Names
  <2>2. \A a \in QuoteArrow : a[3] \notin Signs
    BY <2>1, NamesAreNoSigns
  <2> QED
    BY <2>2 DEF QuoteArrow, ArrivalOf, Arrival, ClosedStates, OpenStates
<1>3. \A a \in SignArrow : ArrivalOf(a)
  <2>1. /\ "=" \in Signs /\ "<" \in Signs /\ ">" \in Signs /\ ":" \in Signs /\ "(" \in Signs
        /\ "==" \notin Signs /\ "<=" \notin Signs /\ "<>" \notin Signs /\ ">=" \notin Signs
        /\ ":=" \notin Signs /\ "(*" \notin Signs
    BY NamesAreNoSigns DEF Signs, SignMarks, Names
  <2> QED
    BY <2>1 DEF SignArrow, ArrivalOf, Arrival, ClosedStates, OpenStates
<1>4. \A a \in SingleArrow : ArrivalOf(a)
  <2> SUFFICES ASSUME NEW c \in {"+", "-", "*", "/", ")", "[", "]", Comma, Semicolon, "."}
               PROVE  Arrival("start", c, c)
    BY DEF SingleArrow, ArrivalOf
  <2>1. c \in Signs
    BY DEF Signs, SignMarks
  <2>2. c \notin Names
    BY <2>1, NamesAreNoSigns
  <2> QED
    BY <2>1, <2>2 DEF Arrival, ClosedStates, OpenStates, Names
<1> QED
  BY <1>1, <1>2, <1>3, <1>4 DEF Arrow

(* What a state has an arrow for.                                          *)
Departure(at, c) ==
  /\ at = "integer" => c \notin Digits /\ c # "." /\ c \notin Letters
  /\ at = "real" => c \notin Digits /\ c \notin Letters
  /\ at = "range" => c \notin Digits
  /\ at \in ClosedStates => c # "'"
  /\ at = "<" => c \notin {"=", ">"}
  /\ at \in {">", ":", "="} => c # "="

LEMMA Departures ==
  ASSUME NEW at, NEW c, \A a \in Arrow : ~ (a[1] = at /\ c \in a[2])
  PROVE  Departure(at, c)
<1>1. \A a \in NumberArrow : ~ (a[1] = at /\ c \in a[2])
  BY DEF Arrow
<1>2. \A a \in QuoteArrow : ~ (a[1] = at /\ c \in a[2])
  BY DEF Arrow
<1>3. \A a \in SignArrow : ~ (a[1] = at /\ c \in a[2])
  BY DEF Arrow
<1>4. /\ at = "integer" => c \notin Digits /\ c # "." /\ c \notin Letters
      /\ at = "real" => c \notin Digits /\ c \notin Letters
      /\ at = "range" => c \notin Digits
  BY <1>1 DEF NumberArrow
<1>5. at \in ClosedStates => c # "'"
  BY <1>2 DEF QuoteArrow, ClosedStates
<1>6. /\ at = "<" => c \notin {"=", ">"}
      /\ at \in {">", ":", "="} => c # "="
  BY <1>3 DEF SignArrow
<1> QED
  BY <1>4, <1>5, <1>6 DEF Departure

(* A step of the automaton in words, numbers, literals and symbols.        *)
LEMMA Going ==
  ASSUME NEW st, NEW c, NextState(st, c) # Null
  PROVE  LET n == NextState(st, c) IN
         \/ /\ st.at = "identifier" /\ c \in Alphanumeric /\ n = st
         \/ /\ st.at = "word" /\ c \in Alphanumeric /\ n = Word(Append(st.word, Upper(c)))
         \/ /\ st.at = "start" /\ c \in Letters /\ n = Word(<< Upper(c) >>)
         \/ /\ st.at \notin {"word", "identifier"} /\ ~ (st.at = "start" /\ c \in Letters)
            /\ Arrival(st.at, c, n.at) /\ n = At(n.at)
<1> DEFINE n == NextState(st, c)
<1>1. CASE st.at \in {"word", "identifier"}
  BY <1>1 DEF NextState, WordNext
<1>2. CASE st.at = "start" /\ c \in Letters
  BY <1>2 DEF NextState
<1>3. CASE st.at \notin {"word", "identifier"} /\ ~ (st.at = "start" /\ c \in Letters)
  <2> DEFINE taken == {a \in Arrow : a[1] = st.at /\ c \in a[2]}
  <2>1. n = IF taken = {} THEN Null ELSE At((CHOOSE a \in taken : TRUE)[3])
    BY <1>3 DEF NextState, LiteralNext
  <2>2. PICK a \in taken : n = At(a[3])
    BY <2>1
  <2>3. n.at = a[3] /\ a[1] = st.at /\ c \in a[2] /\ ArrivalOf(a)
    BY <2>2, Arrivals DEF At
  <2> QED
    BY <1>3, <2>2, <2>3 DEF ArrivalOf
<1> QED
  BY <1>1, <1>2, <1>3

LEMMA Blocking ==
  ASSUME NEW st, NEW c, NextState(st, c) = Null, ~ (st.at = "start" /\ c \in Letters)
  PROVE  /\ st.at = "identifier" => c \notin Alphanumeric
         /\ st.at = "word" => c \notin Alphanumeric \/ HasGap(st.word, c)
         /\ st.at \notin {"word", "identifier"} => Departure(st.at, c)
<1>1. Null.at = "null" /\ Null.word = << >>
  BY DEF Null, At
<1>2. \A w : Word(w) # Null
  BY DEF Word, At, Null
<1>3. CASE st.at = "identifier"
  BY <1>1, <1>3 DEF NextState, WordNext
<1>4. CASE st.at = "word"
  BY <1>2, <1>4 DEF NextState, WordNext
<1>5. CASE st.at \notin {"word", "identifier"}
  <2> DEFINE taken == {a \in Arrow : a[1] = st.at /\ c \in a[2]}
  <2>1. Null = IF taken = {} THEN Null ELSE At((CHOOSE a \in taken : TRUE)[3])
    BY <1>5 DEF NextState, LiteralNext
  <2>2. taken = {}
    <3> SUFFICES ASSUME taken # {} PROVE FALSE
      OBVIOUS
    <3>1. PICK a \in taken : Null = At(a[3])
      BY <2>1
    <3>2. a[3] = "null" /\ ArrivalOf(a) /\ c \in a[2]
      BY <1>1, <3>1, Arrivals DEF At
    <3> QED
      BY <3>2 DEF ArrivalOf, Arrival
  <2> QED
    BY <1>5, <2>2, Departures
<1> QED
  BY <1>3, <1>4, <1>5

-----------------------------------------------------------------------------
(* One character more.                                                     *)

LEMMA Appended ==
  ASSUME NEW s \in Seq(Chars), NEW c \in Chars
  PROVE  /\ Append(s, c) \in Seq(Chars) /\ Len(s) \in Nat
         /\ Len(Append(s, c)) = Len(s) + 1
         /\ \A i \in 1 .. Len(s) : Append(s, c)[i] = s[i]
         /\ Append(s, c)[Len(s) + 1] = c
OBVIOUS

LEMMA AllInGrows ==
  ASSUME NEW s \in Seq(Chars), NEW c \in Chars, NEW S, c \in S, AllIn(s, S) \/ s = << >>
  PROVE  AllIn(Append(s, c), S)
<1>1. /\ Len(Append(s, c)) = Len(s) + 1 /\ Len(s) \in Nat
      /\ \A i \in 1 .. Len(s) : Append(s, c)[i] = s[i]
      /\ Append(s, c)[Len(s) + 1] = c
  BY Appended
<1>2. Append(s, c) # << >>
  BY <1>1
<1>3. \A i \in 1 .. Len(s) : s[i] \in S
  BY DEF AllIn
<1>4. \A i \in 1 .. Len(s) + 1 : i \in 1 .. Len(s) \/ i = Len(s) + 1
  BY <1>1
<1> QED
  BY <1>1, <1>2, <1>3, <1>4 DEF AllIn

LEMMA IsWordGrows ==
  ASSUME NEW s \in Seq(Chars), NEW c \in Chars, IsWord(s), c \in Alphanumeric
  PROVE  IsWord(Append(s, c))
<1>1. AllIn(s, Alphanumeric) /\ s[1] \in Letters /\ s # << >>
  BY DEF IsWord, AllIn
<1>2. Append(s, c)[1] = s[1]
  BY <1>1, Appended
<1> QED
  BY <1>1, <1>2, AllInGrows DEF IsWord

LEMMA UppersType ==
  ASSUME NEW s \in Seq(Chars)
  PROVE  /\ Uppers(s) \in Seq({Upper(c) : c \in Chars}) /\ Len(Uppers(s)) = Len(s)
         /\ \A n \in 1 .. Len(s) : Uppers(s)[n] = Upper(s[n])
<1>1. DOMAIN s = 1 .. Len(s) /\ Len(s) \in Nat /\ \A n \in 1 .. Len(s) : s[n] \in Chars
  OBVIOUS
<1>2. Uppers(s) \in [1 .. Len(s) -> {Upper(c) : c \in Chars}]
  BY <1>1 DEF Uppers
<1>3. Uppers(s) \in Seq({Upper(c) : c \in Chars}) /\ Len(Uppers(s)) = Len(s)
  BY <1>1, <1>2
<1> QED
  BY <1>1, <1>3 DEF Uppers

LEMMA UppersGrow ==
  ASSUME NEW s \in Seq(Chars), NEW c \in Chars
  PROVE  Uppers(Append(s, c)) = Append(Uppers(s), Upper(c))
<1> DEFINE U == {Upper(d) : d \in Chars}
           x == Uppers(Append(s, c))
           y == Append(Uppers(s), Upper(c))
<1>1. /\ Append(s, c) \in Seq(Chars) /\ Len(Append(s, c)) = Len(s) + 1 /\ Len(s) \in Nat
      /\ \A i \in 1 .. Len(s) : Append(s, c)[i] = s[i]
      /\ Append(s, c)[Len(s) + 1] = c
  BY Appended
<1>2. x \in Seq(U) /\ Len(x) = Len(s) + 1
      /\ \A i \in 1 .. Len(s) + 1 : x[i] = Upper(Append(s, c)[i])
  BY <1>1, UppersType
<1>3. Uppers(s) \in Seq(U) /\ Len(Uppers(s)) = Len(s) /\ Upper(c) \in U
      /\ \A i \in 1 .. Len(s) : Uppers(s)[i] = Upper(s[i])
  BY UppersType
<1> HIDE DEF U
<1>4. y \in Seq(U) /\ Len(y) = Len(s) + 1 /\ y[Len(s) + 1] = Upper(c)
      /\ \A i \in 1 .. Len(s) : y[i] = Uppers(s)[i]
  BY <1>1, <1>3
<1> HIDE DEF x, y
<1>5. \A i \in 1 .. Len(x) : x[i] = y[i]
  <2> SUFFICES ASSUME NEW i \in 1 .. Len(s) + 1 PROVE x[i] = y[i]
    BY <1>2
  <2>1. CASE i = Len(s) + 1
    BY <1>1, <1>2, <1>4, <2>1
  <2>2. CASE i \in 1 .. Len(s)
    BY <1>1, <1>2, <1>3, <1>4, <2>2
  <2> QED
    BY <1>1, <2>1, <2>2
<1>6. x = y
  BY <1>2, <1>4, <1>5, SeqEqual
<1> QED
  BY <1>6 DEF x, y

LEMMA LeavesFurther ==
  ASSUME NEW s \in Seq(Chars), NEW c \in Chars, LeavesKeywords(s)
  PROVE  LeavesKeywords(Append(s, c))
<1> DEFINE U == {Upper(d) : d \in Chars}
<1>1. PICK n \in 1 .. Len(s) : SubSeq(Uppers(s), 1, n) \notin KeywordPrefixes
  BY DEF LeavesKeywords
<1>2. Uppers(Append(s, c)) = Append(Uppers(s), Upper(c))
  BY UppersGrow
<1>3. Uppers(s) \in Seq(U) /\ Len(Uppers(s)) = Len(s) /\ Upper(c) \in U
  BY UppersType
<1> HIDE DEF U
<1>4. SubSeq(Append(Uppers(s), Upper(c)), 1, n) = SubSeq(Uppers(s), 1, n)
  BY <1>3
<1>5. n \in 1 .. Len(Append(s, c))
  BY Appended
<1> QED
  BY <1>1, <1>2, <1>4, <1>5 DEF LeavesKeywords

(* The state of a word.                                                    *)
LEMMA WordForm ==
  ASSUME NEW s \in Seq(Chars), IsWord(s)
  PROVE  Form(Word(Uppers(s)), s)
<1> DEFINE w == Uppers(s)
<1>1. CASE w \in KeywordPrefixes
  <2>1. Word(w).at = "word" /\ Word(w).word = w
    BY <1>1 DEF Word
  <2>2. "word" \notin Signs
    BY NamesAreNoSigns DEF Names
  <2> QED
    BY <1>1, <2>1, <2>2 DEF Form, OpenStates, ClosedStates
<1>2. CASE w \notin KeywordPrefixes
  <2>1. Word(w).at = "identifier"
    BY <1>2 DEF Word, At
  <2>2. "identifier" \notin Signs
    BY NamesAreNoSigns DEF Names
  <2>3. LeavesKeywords(s)
    <3>1. w \in Seq({Upper(c) : c \in Chars}) /\ Len(w) = Len(s) /\ Len(s) \in Nat
      BY UppersType
    <3>2. SubSeq(w, 1, Len(w)) = w
      BY <3>1, SubSeqFull
    <3>3. Len(s) \in 1 .. Len(s)
      BY <3>1 DEF IsWord, AllIn
    <3> QED
      BY <1>2, <3>1, <3>2, <3>3 DEF LeavesKeywords
  <2> QED
    BY <2>1, <2>2, <2>3 DEF Form, OpenStates, ClosedStates
<1> QED
  BY <1>1, <1>2

(* A quote that waits gets its second, and no other character.             *)
LEMMA QuotesGrow ==
  ASSUME NEW s \in Seq(Chars), NEW c \in Chars, NEW W, QuotesOf(s, W),
         c \notin HighChars, c # "\n", Len(s) \in W => c = "'"
  PROVE  LET x == Append(s, c) IN
         /\ Len(s) + 1 \notin W
         /\ c = "'" /\ Len(s) \notin W =>
              /\ QuotesOf(x, W \cup {Len(s) + 1})
              /\ W \cup {Len(s) + 1} \in SUBSET (2 .. Len(s) + 1)
         /\ ~ (c = "'" /\ Len(s) \notin W) => QuotesOf(x, W) /\ W \in SUBSET (2 .. Len(s) + 1)
<1> DEFINE V == IF c = "'" /\ Len(s) \notin W THEN W \cup {Len(s) + 1} ELSE W
           x == Append(s, c)
           m == Len(s)
<1>0. \/ c = "'" /\ m \notin W /\ V = W \cup {m + 1}
      \/ ~ (c = "'" /\ m \notin W) /\ V = W
  OBVIOUS
<1>1. /\ Len(x) = m + 1 /\ m \in Nat \ {0} /\ \A i \in 1 .. m : x[i] = s[i] /\ x[m + 1] = c
      /\ W \subseteq 2 .. m
  BY Appended DEF QuotesOf, Pairs
<1>2. x[1] = "'" /\ \A n \in 2 .. m : x[n] \notin HighChars /\ x[n] # "\n"
  BY <1>1 DEF QuotesOf
<1>3. \A n \in 2 .. m : /\ n \in W <=> s[n] = "'" /\ n - 1 \notin W
                        /\ n - 1 \in W => s[n] = "'"
  BY DEF QuotesOf, Pairs
<1> HIDE DEF x, m, V
<1>4. V \subseteq 2 .. m + 1 /\ m + 1 \notin W /\ (m + 1 \in V <=> c = "'" /\ m \notin W)
      /\ \A n \in 1 .. m : n \in V <=> n \in W
  <2>1. /\ m + 1 \notin W /\ W \subseteq 2 .. m + 1
        /\ m + 1 \in 2 .. m + 1 /\ m \in 1 .. m
        /\ \A n \in 1 .. m : n # m + 1
    BY <1>1
  <2>2. CASE c = "'" /\ m \notin W /\ V = W \cup {m + 1}
    BY <2>1, <2>2
  <2>3. CASE ~ (c = "'" /\ m \notin W) /\ V = W
    BY <2>1, <2>3
  <2> QED
    BY <1>0, <2>2, <2>3
<1>5. ASSUME NEW n \in 2 .. m + 1
      PROVE  /\ n \in V <=> x[n] = "'" /\ n - 1 \notin V
             /\ n - 1 \in V => x[n] = "'"
             /\ x[n] \notin HighChars /\ x[n] # "\n"
  <2>1. CASE n = m + 1
    <3>1. m \in 1 .. m /\ n - 1 = m /\ x[n] = c
      BY <1>1, <2>1
    <3>2. m \in W => c = "'"
      BY DEF m
    <3> QED
      BY <1>4, <2>1, <3>1, <3>2
  <2>2. CASE n \in 2 .. m
    <3>1. n \in 1 .. m /\ n - 1 \in 1 .. m /\ x[n] = s[n]
      BY <1>1, <2>2
    <3> QED
      BY <1>2, <1>3, <1>4, <2>2, <3>1
  <2> QED
    BY <1>1, <2>1, <2>2
<1>6. QuotesOf(x, V)
  BY <1>1, <1>2, <1>4, <1>5 DEF QuotesOf, Pairs
<1> QED
  BY <1>0, <1>4, <1>6 DEF x, m

LEMMA DigitsPiece ==
  ASSUME NEW s \in Seq(Chars), NEW a \in 1 .. Len(s), NEW b \in a .. Len(s)
  PROVE  AllIn(SubSeq(s, a, b), Digits) <=> DigitsFrom(s, a, b)
<1> DEFINE x == SubSeq(s, a, b)
<1>1. a \in Nat /\ b \in Nat /\ a >= 1 /\ a <= b /\ b <= Len(s) /\ Len(s) \in Nat
  OBVIOUS
<1>2. \A i \in a .. b : s[i] \in Chars
  BY <1>1, ElementOfSeq
<1>3. /\ x \in Seq(Chars) /\ Len(x) = b - a + 1
      /\ \A i \in 1 .. b - a + 1 : x[i] = s[a + i - 1]
  BY <1>1, <1>2, SubSeqProperties
<1>4. x # << >>
  BY <1>1, <1>3
<1> HIDE DEF x
<1>5. ASSUME AllIn(x, Digits) PROVE DigitsFrom(s, a, b)
  <2> SUFFICES ASSUME NEW n \in a .. b PROVE s[n] \in Digits
    BY DEF DigitsFrom
  <2>1. n - a + 1 \in 1 .. b - a + 1 /\ a + (n - a + 1) - 1 = n
    BY <1>1
  <2> QED
    BY <1>3, <1>5, <2>1 DEF AllIn
<1>6. ASSUME DigitsFrom(s, a, b) PROVE AllIn(x, Digits)
  <2> SUFFICES ASSUME NEW i \in 1 .. b - a + 1 PROVE x[i] \in Digits
    BY <1>3, <1>4 DEF AllIn
  <2>1. a + i - 1 \in a .. b
    BY <1>1
  <2> QED
    BY <1>3, <1>6, <2>1 DEF DigitsFrom
<1> QED
  BY <1>5, <1>6 DEF x

HasPoint(s, d) == s[d] = "." /\ DigitsFrom(s, 1, d - 1) /\ DigitsFrom(s, d + 1, Len(s))

LEMMA RealShape ==
  ASSUME NEW s \in Seq(Chars)
  PROVE  IsReal(s) <=> \E d \in 2 .. Len(s) - 1 : HasPoint(s, d)
<1>1. ASSUME NEW d \in 2 .. Len(s) - 1
      PROVE  /\ AllIn(SubSeq(s, 1, d - 1), Digits) <=> DigitsFrom(s, 1, d - 1)
             /\ AllIn(SubSeq(s, d + 1, Len(s)), Digits) <=> DigitsFrom(s, d + 1, Len(s))
  <2>1. /\ 1 \in 1 .. Len(s) /\ d - 1 \in 1 .. Len(s)
        /\ d + 1 \in 1 .. Len(s) /\ Len(s) \in d + 1 .. Len(s)
    OBVIOUS
  <2> QED
    BY <2>1, DigitsPiece
<1> QED
  BY <1>1 DEF IsReal, HasPoint

(* Digits that are read stay where they are.                               *)
LEMMA DigitsStay ==
  ASSUME NEW s \in Seq(Chars), NEW c \in Chars, NEW a \in Nat \ {0}, NEW b \in 0 .. Len(s)
  PROVE  DigitsFrom(s, a, b) => DigitsFrom(Append(s, c), a, b)
<1> SUFFICES ASSUME DigitsFrom(s, a, b), NEW n \in a .. b PROVE Append(s, c)[n] \in Digits
  BY DEF DigitsFrom
<1>1. n \in 1 .. Len(s)
  OBVIOUS
<1> QED
  BY <1>1, Appended DEF DigitsFrom

LEMMA DigitsGrow ==
  ASSUME NEW s \in Seq(Chars), NEW c \in Digits, c \in Chars, NEW a \in Nat \ {0},
         DigitsFrom(s, a, Len(s))
  PROVE  DigitsFrom(Append(s, c), a, Len(s) + 1)
<1> SUFFICES ASSUME NEW n \in a .. Len(s) + 1 PROVE Append(s, c)[n] \in Digits
  BY DEF DigitsFrom
<1>1. n = Len(s) + 1 \/ (n \in 1 .. Len(s) /\ n \in a .. Len(s))
  OBVIOUS
<1> QED
  BY <1>1, Appended DEF DigitsFrom

LEMMA NumbersGrow ==
  ASSUME NEW s \in Seq(Chars), NEW c \in Chars, NEW st, NEW to, Form(st, s), Arrival(st.at, c, to)
  PROVE  LET x == Append(s, c) IN
         /\ to = "integer" => AllIn(x, Digits)
         /\ to = "point" => Len(x) >= 2 /\ DigitsFrom(x, 1, Len(x) - 1) /\ x[Len(x)] = "."
         /\ to = "real" => IsReal(x)
         /\ to = "dots" => /\ Len(x) >= 3 /\ DigitsFrom(x, 1, Len(x) - 2)
                           /\ x[Len(x) - 1] = "." /\ x[Len(x)] = "."
         /\ to = "range" => IsRange(x)
<1> DEFINE x == Append(s, c)
           m == Len(s)
<1>1. /\ x \in Seq(Chars) /\ Len(x) = m + 1 /\ m \in Nat
      /\ \A i \in 1 .. m : x[i] = s[i]
      /\ x[m + 1] = c
  BY Appended
<1>2. \A a \in Nat \ {0}, b \in 0 .. m : DigitsFrom(s, a, b) => DigitsFrom(x, a, b)
  BY DigitsStay
<1>3. \A a \in Nat \ {0} : DigitsFrom(s, a, m) /\ c \in Digits => DigitsFrom(x, a, m + 1)
  BY DigitsGrow
<1>4. /\ \A d \in 2 .. m - 1 : HasPoint(s, d) => /\ s[d] = "." /\ DigitsFrom(s, 1, d - 1)
                                                /\ DigitsFrom(s, d + 1, m)
      /\ \A d \in 2 .. m : /\ x[d] = "." /\ DigitsFrom(x, 1, d - 1) /\ DigitsFrom(x, d + 1, m + 1)
                            => HasPoint(x, d)
  BY <1>1 DEF HasPoint
<1>5. IsReal(s) => \E d \in 2 .. m - 1 : HasPoint(s, d)
  BY RealShape
<1>6. (\E d \in 2 .. m : HasPoint(x, d)) => IsReal(x)
  <2>1. Len(x) - 1 = m /\ x \in Seq(Chars)
    BY <1>1
  <2> HIDE DEF x, m
  <2>2. IsReal(x) <=> \E d \in 2 .. Len(x) - 1 : HasPoint(x, d)
    BY <2>1, RealShape
  <2> QED
    BY <2>1, <2>2
<1>7. to = "integer" => AllIn(x, Digits)
  BY AllInGrows DEF Arrival, Form
<1>8. ASSUME to = "point"
      PROVE  Len(x) >= 2 /\ DigitsFrom(x, 1, Len(x) - 1) /\ x[Len(x)] = "."
  <2>1. c = "." /\ AllIn(s, Digits)
    BY <1>8 DEF Arrival, Form
  <2>2. m >= 1 /\ DigitsFrom(s, 1, m)
    BY <1>1, <2>1 DEF AllIn, DigitsFrom
  <2>3. DigitsFrom(x, 1, m)
    BY <1>1, <1>2, <2>2
  <2> HIDE DEF x, m
  <2> QED
    BY <1>1, <2>1, <2>2, <2>3
<1>9. ASSUME to = "real" PROVE IsReal(x)
  <2>1. c \in Digits
    BY <1>9 DEF Arrival
  <2>2. CASE st.at = "point"
    <3>1. m >= 2 /\ DigitsFrom(s, 1, m - 1) /\ s[m] = "."
      BY <2>2 DEF Form
    <3>2. DigitsFrom(x, 1, m - 1) /\ x[m] = "." /\ m \in 2 .. m
      BY <1>1, <1>2, <3>1
    <3>3. DigitsFrom(x, m + 1, m + 1)
      BY <1>1, <2>1 DEF DigitsFrom
    <3> HIDE DEF x, m
    <3> QED
      BY <1>4, <1>6, <3>2, <3>3
  <2>3. CASE st.at = "real"
    <3>1. PICK d \in 2 .. m - 1 : HasPoint(s, d)
      BY <1>5, <2>3 DEF Form
    <3>2. /\ s[d] = "." /\ DigitsFrom(s, 1, d - 1) /\ DigitsFrom(s, d + 1, m)
          /\ d \in 1 .. m /\ d - 1 \in 0 .. m /\ d + 1 \in Nat \ {0} /\ d \in 2 .. m
      BY <1>1, <1>4, <3>1
    <3>3. x[d] = "." /\ DigitsFrom(x, 1, d - 1) /\ DigitsFrom(x, d + 1, m + 1)
      BY <1>1, <1>2, <1>3, <2>1, <3>2
    <3> HIDE DEF x, m
    <3> QED
      BY <1>4, <1>6, <3>2, <3>3
  <2> QED
    BY <1>9, <2>2, <2>3 DEF Arrival
<1>10. ASSUME to = "dots"
       PROVE  /\ Len(x) >= 3 /\ DigitsFrom(x, 1, Len(x) - 2)
              /\ x[Len(x) - 1] = "." /\ x[Len(x)] = "."
  <2>1. c = "." /\ m >= 2 /\ DigitsFrom(s, 1, m - 1) /\ s[m] = "."
    BY <1>10 DEF Arrival, Form
  <2>2. DigitsFrom(x, 1, m - 1) /\ m \in 1 .. m
    BY <1>1, <1>2, <2>1
  <2>3. Len(x) - 2 = m - 1 /\ Len(x) - 1 = m
    BY <1>1
  <2> HIDE DEF x, m
  <2> QED
    BY <1>1, <2>1, <2>2, <2>3
<1>11. ASSUME to = "range" PROVE IsRange(x)
  <2>1. c \in Digits
    BY <1>11 DEF Arrival
  <2>2. CASE st.at = "dots"
    <3>1. m >= 3 /\ DigitsFrom(s, 1, m - 2) /\ s[m - 1] = "." /\ s[m] = "."
      BY <2>2 DEF Form
    <3>2. /\ DigitsFrom(x, 1, m - 2) /\ x[m - 1] = "." /\ x[m] = "."
          /\ m - 1 \in 2 .. Len(x) - 2 /\ (m - 1) - 1 = m - 2 /\ (m - 1) + 1 = m
          /\ (m - 1) + 2 = m + 1
      BY <1>1, <1>2, <3>1
    <3>3. DigitsFrom(x, m + 1, m + 1)
      BY <1>1, <2>1 DEF DigitsFrom
    <3> HIDE DEF x, m
    <3> QED
      BY <1>1, <3>2, <3>3 DEF IsRange
  <2>3. CASE st.at = "range"
    <3>1. PICK d \in 2 .. m - 2 : /\ DigitsFrom(s, 1, d - 1) /\ s[d] = "." /\ s[d + 1] = "."
                                  /\ DigitsFrom(s, d + 2, m)
      BY <2>3 DEF Form, IsRange
    <3>2. /\ DigitsFrom(x, 1, d - 1) /\ x[d] = "." /\ x[d + 1] = "."
          /\ DigitsFrom(x, d + 2, m + 1) /\ d \in 2 .. Len(x) - 2
      BY <1>1, <1>2, <1>3, <2>1, <3>1
    <3> HIDE DEF x, m
    <3> QED
      BY <1>1, <3>2 DEF IsRange
  <2> QED
    BY <1>11, <2>2, <2>3 DEF Arrival
<1> QED
  BY <1>7, <1>8, <1>9, <1>10, <1>11

LEMMA LiteralsGrow ==
  ASSUME NEW s \in Seq(Chars), NEW c \in Chars, NEW st, NEW to, Form(st, s), Arrival(st.at, c, to)
  PROVE  /\ to \in OpenStates => IsOpen(Append(s, c))
         /\ to \in ClosedStates => IsClosed(Append(s, c))
<1> DEFINE x == Append(s, c)
           m == Len(s)
<1>1. Len(x) = m + 1 /\ m \in Nat
  BY Appended
<1>2. "'" \notin HighChars /\ "'" # "\n"
  BY HighCharsAssumption
<1>3. ASSUME to \in OpenStates PROVE IsOpen(x)
  <2>1. CASE st.at = "start" /\ c = "'"
    <3>1. s = << >>
      BY <2>1 DEF Form
    <3>2. Len(x) = 1 /\ x[1] = "'"
      BY <2>1, <3>1
    <3>3. QuotesOf(x, {}) /\ {} \in SUBSET (2 .. Len(x)) /\ Len(x) \notin {}
      BY <3>2 DEF QuotesOf, Pairs
    <3> QED
      BY <3>3 DEF IsOpen
  <2>2. CASE st.at \in ClosedStates /\ c = "'"
    <3>1. PICK W \in SUBSET (2 .. m) : QuotesOf(s, W) /\ m \in W
      BY <2>2 DEF Form, IsClosed
    <3>2. QuotesOf(x, W) /\ W \in SUBSET (2 .. m + 1) /\ m + 1 \notin W
      BY <1>2, <2>2, <3>1, QuotesGrow
    <3> HIDE DEF x, m
    <3> QED
      BY <1>1, <3>2 DEF IsOpen
  <2>3. CASE st.at \in OpenStates /\ c \in Plain
    <3>1. PICK W \in SUBSET (2 .. m) : QuotesOf(s, W) /\ m \notin W
      BY <2>3 DEF Form, IsOpen
    <3>2. c \notin HighChars /\ c # "\n" /\ c # "'"
      BY <2>3 DEF Plain
    <3>3. QuotesOf(x, W) /\ W \in SUBSET (2 .. m + 1) /\ m + 1 \notin W
      BY <3>1, <3>2, QuotesGrow
    <3> HIDE DEF x, m
    <3> QED
      BY <1>1, <3>3 DEF IsOpen
  <2> QED
    BY <1>3, <2>1, <2>2, <2>3 DEF Arrival, OpenStates
<1>4. ASSUME to \in ClosedStates PROVE IsClosed(x)
  <2>1. st.at \in OpenStates /\ c = "'"
    BY <1>4 DEF Arrival
  <2>2. PICK W \in SUBSET (2 .. m) : QuotesOf(s, W) /\ m \notin W
    BY <2>1 DEF Form, IsOpen
  <2> DEFINE V == W \cup {m + 1}
  <2>3. QuotesOf(x, V) /\ V \in SUBSET (2 .. m + 1)
    BY <1>2, <2>1, <2>2, QuotesGrow
  <2> HIDE DEF x, m
  <2> QED
    BY <1>1, <2>3 DEF IsClosed
<1> QED
  BY <1>3, <1>4

LEMMA SymbolsGrow ==
  ASSUME NEW s \in Seq(Chars), NEW c \in Chars, NEW st, NEW to, Form(st, s), Arrival(st.at, c, to)
  PROVE  LET x == Append(s, c) IN
         /\ to \in Signs => x = << to >>
         /\ to = "==" => x = << "=", "=" >>
         /\ to = "<=" => x = << "<", "=" >>
         /\ to = "<>" => x = << "<", ">" >>
         /\ to = ">=" => x = << ">", "=" >>
         /\ to = ":=" => x = << ":", "=" >>
<1> DEFINE x == Append(s, c)
<1>1. ASSUME to \in Signs PROVE x = << to >>
  <2>1. s = << >> /\ c = to
    BY <1>1 DEF Arrival, Form
  <2> QED
    BY <2>1
<1>2. ASSUME NEW a \in Signs, st.at = a, NEW b, c = b PROVE x = << a, b >>
  <2>1. s = << a >>
    BY <1>2 DEF Form
  <2>2. Len(s) = 1 /\ s[1] = a /\ a \in Chars
    BY <2>1
  <2>3. x \in Seq(Chars) /\ Len(x) = 2 /\ x[1] = a /\ x[2] = b
    <3>1. /\ x \in Seq(Chars) /\ Len(x) = Len(s) + 1 /\ \A i \in 1 .. Len(s) : x[i] = s[i]
          /\ x[Len(s) + 1] = c
      BY Appended
    <3> HIDE DEF x
    <3>2. 1 \in 1 .. Len(s) /\ Len(s) + 1 = 2
      BY <2>2
    <3> QED
      BY <1>2, <2>2, <3>1, <3>2
  <2> HIDE DEF x
  <2>4. /\ << a, b >> \in Seq(Chars) /\ Len(<< a, b >>) = 2
        /\ << a, b >>[1] = a /\ << a, b >>[2] = b
    BY <1>2, <2>2
  <2>5. \A i \in 1 .. 2 : i = 1 \/ i = 2
    OBVIOUS
  <2>6. \A i \in 1 .. 2 : x[i] = << a, b >>[i]
    BY <2>3, <2>4, <2>5
  <2> QED
    BY <2>3, <2>4, <2>6, SeqEqual
<1>3. "=" \in Signs /\ "<" \in Signs /\ ">" \in Signs /\ ":" \in Signs
  BY DEF Signs, SignMarks
<1> HIDE DEF x
<1>4. to = "==" => x = << "=", "=" >>
  BY <1>2, <1>3 DEF Arrival
<1>5. to = "<=" => x = << "<", "=" >>
  BY <1>2, <1>3 DEF Arrival
<1>6. to = "<>" => x = << "<", ">" >>
  BY <1>2, <1>3 DEF Arrival
<1>7. to = ">=" => x = << ">", "=" >>
  BY <1>2, <1>3 DEF Arrival
<1>8. to = ":=" => x = << ":", "=" >>
  BY <1>2, <1>3 DEF Arrival
<1> QED
  BY <1>1, <1>4, <1>5, <1>6, <1>7, <1>8 DEF x

LEMMA FormGrows ==
  ASSUME NEW s \in Seq(Chars), NEW c \in Chars, NEW st, Form(st, s), NextState(st, c) # Null
  PROVE  Form(NextState(st, c), Append(s, c))
<1> DEFINE n == NextState(st, c)
           x == Append(s, c)
<1>0. x \in Seq(Chars)
  BY Appended
<1>1. CASE st.at = "identifier" /\ c \in Alphanumeric /\ n = st
  <2>1. IsWord(x) /\ LeavesKeywords(x)
    BY <1>1, IsWordGrows, LeavesFurther DEF Form
  <2>2. "identifier" \notin Signs
    BY NamesAreNoSigns DEF Names
  <2> HIDE DEF x, n
  <2>3. Form(n, x)
    BY <1>1, <2>1, <2>2 DEF Form, OpenStates, ClosedStates
  <2> QED
    BY <2>3 DEF x, n
<1>2. CASE st.at = "word" /\ c \in Alphanumeric /\ n = Word(Append(st.word, Upper(c)))
  <2>1. IsWord(s) /\ Uppers(s) = st.word
    BY <1>2 DEF Form
  <2>2. IsWord(x) /\ Uppers(x) = Append(st.word, Upper(c))
    BY <1>2, <2>1, IsWordGrows, UppersGrow
  <2> HIDE DEF x, n
  <2>3. Form(n, x)
    BY <1>0, <1>2, <2>2, WordForm
  <2> QED
    BY <2>3 DEF x, n
<1>3. CASE st.at = "start" /\ c \in Letters /\ n = Word(<< Upper(c) >>)
  <2>1. s = << >>
    BY <1>3 DEF Form
  <2>2. AllIn(x, Alphanumeric)
    BY <1>3, <2>1, AllInGrows DEF Alphanumeric
  <2>3. x[1] = c /\ x = << c >>
    BY <2>1
  <2>4. IsWord(x)
    BY <1>3, <2>2, <2>3 DEF IsWord
  <2>5. Uppers(s) = << >>
    BY <2>1 DEF Uppers
  <2>6. Uppers(x) = << Upper(c) >>
    <3>1. Uppers(x) = Append(Uppers(s), Upper(c))
      BY UppersGrow
    <3>2. Append(<< >>, Upper(c)) = << Upper(c) >>
      OBVIOUS
    <3> HIDE DEF x
    <3> QED
      BY <2>5, <3>1, <3>2
  <2> HIDE DEF x, n
  <2>7. Form(n, x)
    BY <1>0, <1>3, <2>4, <2>6, WordForm
  <2> QED
    BY <2>7 DEF x, n
<1>4. CASE Arrival(st.at, c, n.at)
  <2> DEFINE to == n.at
  <2> HIDE DEF n
  <2>1. to \notin {"word", "identifier", "start"}
    BY <1>4 DEF Arrival
  <2>2. /\ to = "integer" => AllIn(x, Digits)
        /\ to = "point" => Len(x) >= 2 /\ DigitsFrom(x, 1, Len(x) - 1) /\ x[Len(x)] = "."
        /\ to = "real" => IsReal(x)
        /\ to = "dots" => /\ Len(x) >= 3 /\ DigitsFrom(x, 1, Len(x) - 2)
                          /\ x[Len(x) - 1] = "." /\ x[Len(x)] = "."
        /\ to = "range" => IsRange(x)
    BY <1>4, NumbersGrow
  <2>3. /\ to \in OpenStates => IsOpen(x)
        /\ to \in ClosedStates => IsClosed(x)
    BY <1>4, LiteralsGrow
  <2>4. /\ to \in Signs => x = << to >>
        /\ to = "==" => x = << "=", "=" >>
        /\ to = "<=" => x = << "<", "=" >>
        /\ to = "<>" => x = << "<", ">" >>
        /\ to = ">=" => x = << ">", "=" >>
        /\ to = ":=" => x = << ":", "=" >>
    BY <1>4, SymbolsGrow
  <2> HIDE DEF x
  <2>5. Form(n, x)
    BY <2>1, <2>2, <2>3, <2>4 DEF Form
  <2> QED
    BY <2>5 DEF x, n
<1> QED
  BY <1>1, <1>2, <1>3, <1>4, Going

-----------------------------------------------------------------------------
(* The keywords and the gaps of the table.                                 *)

Begins(k, w) == Len(w) < Len(k) /\ \A i \in 1 .. Len(w) : k[i] = w[i]

GapAt(k, w) == Begins(k[1], w) => k[1][Len(w) + 1] # w[Len(w)]

LEMMA GapsRead == \A w \in Gap : \A k \in Keyword : GapAt(k, w)
<1>1. \A k \in Keyword : GapAt(k, << "A" >>)
  BY DEF Keyword, GapAt, Begins
<1>2. \A k \in Keyword : GapAt(k, << "E" >>)
  BY DEF Keyword, GapAt, Begins
<1>3. \A k \in Keyword : GapAt(k, << "P" >>)
  BY DEF Keyword, GapAt, Begins
<1>4. \A k \in Keyword : GapAt(k, << "A", "N" >>)
  BY DEF Keyword, GapAt, Begins
<1>5. \A k \in Keyword : GapAt(k, << "F", "O" >>)
  BY DEF Keyword, GapAt, Begins
<1>6. \A k \in Keyword : GapAt(k, << "A", "N", "D" >>)
  BY DEF Keyword, GapAt, Begins
<1>7. \A k \in Keyword : GapAt(k, << "A", "R", "R" >>)
  BY DEF Keyword, GapAt, Begins
<1>8. \A k \in Keyword : GapAt(k, << "C", "A", "S" >>)
  BY DEF Keyword, GapAt, Begins
<1>9. \A k \in Keyword : GapAt(k, << "A", "R", "R", "A", "Y" >>)
  BY DEF Keyword, GapAt, Begins
<1>10. \A k \in Keyword : GapAt(k, << "D", "O", "W", "N", "T", "O" >>)
  BY DEF Keyword, GapAt, Begins
<1> QED
  BY <1>1, <1>2, <1>3, <1>4, <1>5, <1>6, <1>7, <1>8, <1>9, <1>10 DEF Gap

LEMMA GapKeywords ==
  \A k \in Keyword : k[1] \in Gap => k[2] \in {"ANDSY", "ARRAYSY", "DOWNTOSY"}
BY DEF Keyword, Gap

KeyTexts ==
  { <<"A","N","D">>, <<"A","R","R","A","Y">>, <<"B","E","G","I","N">>, <<"C","A","S","E">>,
    <<"C","O","N","S","T">>, <<"D","I","V">>, <<"D","O">>, <<"D","O","W","N","T","O">>,
    <<"E","L","S","E">>, <<"E","N","D">>, <<"F","O","R">>, <<"I","F">>,
    <<"F","U","N","C","T","I","O","N">>, <<"M","O","D">>, <<"N","O","T">>, <<"O","F">>,
    <<"O","R">>, <<"P","R","O","C","E","D","U","R","E">>, <<"P","R","O","G","R","A","M">>,
    <<"R","E","C","O","R","D">>, <<"R","E","P","E","A","T">>, <<"T","O">>,
    <<"T","H","E","N">>, <<"T","Y","P","E">>, <<"U","N","T","I","L">>, <<"V","A","R">>,
    <<"W","H","I","L","E">> }

IsText(s) == s \in Seq(LetterList) /\ Len(s) >= 1

LEMMA KeywordTexts == \A k \in Keyword : IsText(k[1])
<1>1. /\ IsText(<<"A","N","D">>)
      /\ IsText(<<"A","R","R","A","Y">>)
      /\ IsText(<<"B","E","G","I","N">>)
  BY DEF IsText, LetterList
<1>2. /\ IsText(<<"C","A","S","E">>)
      /\ IsText(<<"C","O","N","S","T">>)
      /\ IsText(<<"D","I","V">>)
  BY DEF IsText, LetterList
<1>3. /\ IsText(<<"D","O">>)
      /\ IsText(<<"D","O","W","N","T","O">>)
      /\ IsText(<<"E","L","S","E">>)
  BY DEF IsText, LetterList
<1>4. /\ IsText(<<"E","N","D">>)
      /\ IsText(<<"F","O","R">>)
      /\ IsText(<<"I","F">>)
  BY DEF IsText, LetterList
<1>5. /\ IsText(<<"F","U","N","C","T","I","O","N">>)
      /\ IsText(<<"M","O","D">>)
      /\ IsText(<<"N","O","T">>)
  BY DEF IsText, LetterList
<1>6. /\ IsText(<<"O","F">>)
      /\ IsText(<<"O","R">>)
      /\ IsText(<<"P","R","O","C","E","D","U","R","E">>)
  BY DEF IsText, LetterList
<1>7. /\ IsText(<<"P","R","O","G","R","A","M">>)
      /\ IsText(<<"R","E","C","O","R","D">>)
      /\ IsText(<<"R","E","P","E","A","T">>)
  BY DEF IsText, LetterList
<1>8. /\ IsText(<<"T","O">>)
      /\ IsText(<<"T","H","E","N">>)
      /\ IsText(<<"T","Y","P","E">>)
  BY DEF IsText, LetterList
<1>9. /\ IsText(<<"U","N","T","I","L">>)
      /\ IsText(<<"V","A","R">>)
      /\ IsText(<<"W","H","I","L","E">>)
  BY DEF IsText, LetterList
<1> HIDE DEF IsText
<1>10. \A t \in KeyTexts : IsText(t)
  BY <1>1, <1>2, <1>3, <1>4, <1>5, <1>6, <1>7, <1>8, <1>9 DEF KeyTexts
<1>11. \A k \in Keyword : k[1] \in KeyTexts
  BY DEF Keyword, KeyTexts
<1> QED
  BY <1>10, <1>11

(* A letter no gap has an arrow for leaves the keywords.                   *)
LEMMA GapLeaves ==
  ASSUME NEW s \in Seq(Chars), NEW c \in Chars, IsWord(s), Uppers(s) \in Gap,
         HasGap(Uppers(s), c)
  PROVE  LeavesKeywords(Append(s, c))
<1> DEFINE w == Uppers(s)
           x == Uppers(Append(s, c))
           m == Len(s)
           U == {Upper(d) : d \in Chars}
<1>1. w \in Seq(U) /\ Len(w) = m /\ Upper(c) \in U /\ m \in Nat \ {0}
  BY UppersType DEF IsWord, AllIn
<1>2. x = Append(w, Upper(c)) /\ Upper(c) = w[Len(w)]
  BY UppersGrow DEF HasGap
<1>3. Append(s, c) \in Seq(Chars) /\ Len(Append(s, c)) = m + 1
  BY Appended
<1>4. x \in Seq(U) /\ Len(x) = m + 1
  BY <1>3, UppersType
<1>0. w \in Gap
  OBVIOUS
<1> HIDE DEF x, w, m, U
<1>5. x[m + 1] = w[m] /\ \A i \in 1 .. m : x[i] = w[i]
  BY <1>1, <1>2
<1>6. x \notin KeywordPrefixes
  <2> SUFFICES ASSUME x \in KeywordPrefixes PROVE FALSE
    OBVIOUS
  <2>0. PICK k \in Keyword : \E n \in 1 .. Len(k[1]) : x = SubSeq(k[1], 1, n)
    BY DEF KeywordPrefixes
  <2>1. PICK n \in 1 .. Len(k[1]) : x = SubSeq(k[1], 1, n)
    BY <2>0
  <2>2. k[1] \in Seq(LetterList) /\ Len(k[1]) \in Nat
    BY KeywordTexts DEF IsText
  <2>3. Len(x) = n /\ \A i \in 1 .. n : x[i] = k[1][i]
    BY <2>1, <2>2
  <2>4. n = m + 1 /\ m + 1 \in 1 .. n /\ \A i \in 1 .. m : i \in 1 .. n
    BY <1>1, <1>4, <2>3
  <2>5. k[1][m + 1] = w[m] /\ \A i \in 1 .. m : k[1][i] = w[i]
    BY <1>5, <2>3, <2>4
  <2>6. Begins(k[1], w)
    BY <1>1, <2>2, <2>4, <2>5 DEF Begins
  <2>7. k[1][Len(w) + 1] # w[Len(w)]
    BY <1>0, <2>6, GapsRead DEF GapAt
  <2> QED
    BY <1>1, <2>5, <2>7
<1>7. SubSeq(x, 1, m + 1) = x
  BY <1>4, SubSeqFull
<1>8. m + 1 \in 1 .. Len(Append(s, c))
  BY <1>1, <1>3
<1> QED
  BY <1>6, <1>7, <1>8 DEF LeavesKeywords, x

(* A text that leaves the keywords is none.                                *)
LEMMA NoKeyword ==
  ASSUME NEW s \in Seq(Chars), LeavesKeywords(s)
  PROVE  ~ IsKeyword(s)
<1> SUFFICES ASSUME IsKeyword(s) PROVE FALSE
  OBVIOUS
<1>1. PICK k \in Keyword : k[1] = Uppers(s)
  BY DEF IsKeyword, Uppers
<1>2. PICK n \in 1 .. Len(s) : SubSeq(Uppers(s), 1, n) \notin KeywordPrefixes
  BY DEF LeavesKeywords
<1>3. Len(Uppers(s)) = Len(s)
  BY UppersType
<1>4. SubSeq(k[1], 1, n) \in KeywordPrefixes
  <2>1. n \in 1 .. Len(k[1])
    BY <1>1, <1>3
  <2> HIDE DEF Keyword
  <2> QED
    BY <2>1 DEF KeywordPrefixes
<1> QED
  BY <1>1, <1>2, <1>4

(* How the quotes of a run are paired.                                     *)
LEMMA RunParity ==
  ASSUME NEW s, NEW W, Pairs(s, W), Len(s) \in Nat, NEW a \in 2 .. Len(s), NEW e \in a .. Len(s),
         \A k \in a .. e : s[k] = "'", a - 1 \notin W
  PROVE  e \in W <=> (e - a) % 2 = 0
<1> DEFINE T == {n \in 0 .. e - a : a + n \in W <=> n % 2 = 0}
           m == e - a
<1>1. /\ m \in Nat /\ 0 \in 0 .. m /\ m \in 0 .. m /\ a + m = e
      /\ a \in Nat /\ a - 1 \in Nat
  OBVIOUS
<1>2. \A n \in 2 .. Len(s) : n \in W <=> s[n] = "'" /\ n - 1 \notin W
  BY DEF Pairs
<1>3. 0 \in T
  <2>1. a \in W
    BY <1>2
  <2>2. a + 0 = a /\ 0 % 2 = 0
    OBVIOUS
  <2> QED
    BY <1>1, <2>1, <2>2
<1>4. ASSUME NEW n \in 0 .. m - 1, n \in T PROVE n + 1 \in T
  <2>1. /\ n + 1 \in 0 .. m /\ a + (n + 1) \in 2 .. Len(s) /\ a + (n + 1) \in a .. e
        /\ (a + (n + 1)) - 1 = a + n
    BY <1>1
  <2>2. a + (n + 1) \in W <=> a + n \notin W
    BY <1>2, <2>1
  <2>3. a + n \in W <=> n % 2 = 0
    BY <1>4
  <2>4. n % 2 = 0 <=> (n + 1) % 2 # 0
    OBVIOUS
  <2> QED
    BY <2>1, <2>2, <2>3, <2>4
<1>5. \A n \in 0 .. m - 1 : n \in T => n + 1 \in T
  BY <1>4
<1>6. m \in T
  <2> HIDE DEF T, m
  <2> QED
    BY <1>1, <1>3, <1>5, NumbersUpTo
<1> QED
  BY <1>1, <1>6

(* The quotes inside a literal that may end come in runs of even length.   *)
LEMMA ClosedIsQuoted ==
  ASSUME NEW s \in Seq(Chars), IsClosed(s)
  PROVE  IsQuoted(s)
<1> DEFINE m == Len(s)
<1>1. PICK W \in SUBSET (2 .. m) : QuotesOf(s, W) /\ m \in W
  BY DEF IsClosed
<1>2. /\ m \in Nat /\ m >= 2 /\ s[1] = "'"
      /\ \A n \in 2 .. m : s[n] \notin HighChars /\ s[n] # "\n"
      /\ Pairs(s, W)
  BY <1>1 DEF QuotesOf
<1>3. \A n \in 2 .. m : /\ n \in W <=> s[n] = "'" /\ n - 1 \notin W
                        /\ n - 1 \in W => s[n] = "'"
  BY <1>2 DEF Pairs
<1>4. s[m] = "'" /\ m - 1 \notin W
  BY <1>1, <1>2, <1>3
<1> HIDE DEF m
<1>5. ASSUME NEW n \in 2 .. m - 1, s[n] = "'" PROVE EvenRun(s, n)
  <2> DEFINE A == {a \in 2 .. n : \A k \in a .. n : s[k] = "'"}
             B == {b \in n .. m - 1 : \A k \in n .. b : s[k] = "'"}
  <2>1. n \in A /\ A \subseteq 1 .. m /\ n \in B /\ B \subseteq 1 .. m
    BY <1>2, <1>5
  <2>2. PICK a \in A : \A y \in A : a <= y
    <3> HIDE DEF A
    <3>1. A \subseteq Nat /\ A # {}
      BY <1>2, <2>1
    <3> QED
      BY <3>1, LeastNatural
  <2>3. PICK b \in B : \A y \in B : b >= y
    <3> HIDE DEF B
    <3> QED
      BY <1>2, <2>1, MaxProp
  <2>4. /\ a \in 2 .. n /\ b \in n .. m - 1
        /\ \A k \in a .. b : s[k] = "'"
    <3>1. \A k \in a .. b : k \in a .. n \/ k \in n .. b
      OBVIOUS
    <3> QED
      BY <3>1
  <2>5. a = 2 \/ s[a - 1] # "'"
    <3> SUFFICES ASSUME a # 2, s[a - 1] = "'" PROVE FALSE
      OBVIOUS
    <3>1. a - 1 \in 2 .. n /\ \A k \in a - 1 .. n : k = a - 1 \/ k \in a .. n
      BY <2>4
    <3>2. a - 1 \in A
      BY <3>1
    <3>3. a <= a - 1
      BY <2>2, <3>2
    <3> QED
      BY <2>4, <3>3
  <2>6. b = m - 1 \/ s[b + 1] # "'"
    <3> SUFFICES ASSUME b # m - 1, s[b + 1] = "'" PROVE FALSE
      OBVIOUS
    <3>1. b + 1 \in n .. m - 1 /\ \A k \in n .. b + 1 : k = b + 1 \/ k \in n .. b
      BY <1>2, <2>4
    <3>2. b + 1 \in B
      BY <3>1
    <3>3. b >= b + 1
      BY <2>3, <3>2
    <3> QED
      BY <2>4, <3>3
  <2> HIDE DEF A, B
  <2>7. a - 1 \notin W
    <3>1. a - 1 \in W => a - 1 \in 2 .. m /\ s[a - 1] = "'"
      BY <1>1, <1>3
    <3> QED
      BY <2>4, <2>5, <3>1
  <2>8. b \notin W
    <3>1. b + 1 \in 2 .. m /\ (b + 1) - 1 = b
      BY <1>2, <2>4
    <3>2. b \in W => s[b + 1] = "'"
      BY <1>3, <3>1
    <3>3. b = m - 1 => b \notin W
      BY <1>4
    <3> QED
      BY <2>6, <3>2, <3>3
  <2>9. b \in W <=> (b - a) % 2 = 0
    <3>1. a \in 2 .. Len(s) /\ b \in a .. Len(s) /\ Len(s) \in Nat
      BY <1>2, <2>4 DEF m
    <3> QED
      BY <1>2, <2>4, <2>7, <3>1, RunParity
  <2>10. (b - a) % 2 = 1
    <3>1. b - a \in Nat
      BY <2>4
    <3> QED
      BY <2>8, <2>9, <3>1
  <2>11. b \in n .. Len(s) - 1 /\ (b = Len(s) - 1 \/ s[b + 1] # "'")
    BY <2>4, <2>6 DEF m
  <2> QED
    BY <2>4, <2>5, <2>10, <2>11 DEF EvenRun
<1>6. \A n \in 2 .. m - 1 : s[n] \notin HighChars \cup {"\n"} /\ (s[n] = "'" => EvenRun(s, n))
  BY <1>2, <1>5
<1> QED
  BY <1>2, <1>4, <1>6 DEF IsQuoted, m

-----------------------------------------------------------------------------
(* No longer token: x is s, the character c, and perhaps more.             *)

Extends(x, s, c) ==
  /\ Len(x) > Len(s) /\ \A i \in 1 .. Len(s) : x[i] = s[i]
  /\ x[Len(s) + 1] = c

LEMMA LongerWord ==
  ASSUME NEW s \in Seq(Chars), NEW x \in Seq(Chars), NEW c, Extends(x, s, c),
         IsWord(s), c \notin Alphanumeric
  PROVE  ~ IsToken(x)
<1> SUFFICES ASSUME IsToken(x) PROVE FALSE
  OBVIOUS
<1>1. s[1] \in Letters /\ Len(s) \in Nat \ {0}
  BY DEF IsWord, AllIn
<1>2. x[1] = s[1] /\ Len(s) + 1 \in 1 .. Len(x) /\ x[Len(s) + 1] = c
  BY <1>1 DEF Extends
<1>3. IsWord(x)
  BY <1>1, <1>2, TokenStarts
<1> QED
  BY <1>2, <1>3 DEF IsWord, AllIn

LEMMA DotIsNoDigit == "." \notin Digits
BY DEF Digits

(* Behind digits a real goes on with a point, and then a digit.            *)
LEMMA LongerInteger ==
  ASSUME NEW s \in Seq(Chars), NEW x \in Seq(Chars), NEW c, Extends(x, s, c),
         AllIn(s, Digits), c \notin Digits, IsToken(x)
  PROVE  IsReal(x) /\ c = "." /\ Len(s) + 2 \in 1 .. Len(x) /\ x[Len(s) + 2] \in Digits
<1> DEFINE m == Len(s)
<1>1. m \in Nat \ {0} /\ \A i \in 1 .. m : s[i] \in Digits
  BY DEF AllIn
<1>2. /\ \A i \in 1 .. m : x[i] \in Digits
      /\ x[1] \in Digits /\ m + 1 \in 1 .. Len(x) /\ x[m + 1] = c
  BY <1>1 DEF Extends
<1>3. ~ AllIn(x, Digits)
  BY <1>2 DEF AllIn
<1>4. IsReal(x)
  BY <1>2, <1>3, TokenStarts
<1>5. PICK d \in 2 .. Len(x) - 1 : HasPoint(x, d)
  BY <1>4, RealShape
<1>6. /\ x[d] = "." /\ \A n \in 1 .. d - 1 : x[n] \in Digits
      /\ \A n \in d + 1 .. Len(x) : x[n] \in Digits
  BY <1>5 DEF HasPoint, DigitsFrom
<1> HIDE DEF m
<1>7. d \notin 1 .. m
  BY <1>2, <1>6, DotIsNoDigit
<1>8. m + 1 \notin 1 .. d - 1 /\ m + 1 \notin d + 1 .. Len(x)
  BY <1>2, <1>6
<1>9. d = m + 1
  BY <1>1, <1>2, <1>7, <1>8
<1>10. m + 2 \in d + 1 .. Len(x) /\ m + 2 \in 1 .. Len(x)
  BY <1>1, <1>9
<1> QED
  BY <1>2, <1>4, <1>6, <1>9, <1>10 DEF m

LEMMA LongerReal ==
  ASSUME NEW s \in Seq(Chars), NEW x \in Seq(Chars), NEW c, Extends(x, s, c),
         IsReal(s), c \notin Digits
  PROVE  ~ IsToken(x)
<1> SUFFICES ASSUME IsToken(x) PROVE FALSE
  OBVIOUS
<1> DEFINE m == Len(s)
<1>1. PICK e \in 2 .. m - 1 : HasPoint(s, e)
  BY RealShape
<1>2. /\ m \in Nat /\ e \in 1 .. m /\ 1 \in 1 .. e - 1 /\ 1 \in 1 .. m /\ m + 1 \in 1 .. Len(x)
      /\ \A i \in 1 .. m : x[i] = s[i]
      /\ x[m + 1] = c
  BY DEF Extends
<1>3. x[e] = "." /\ \A n \in 1 .. e - 1 : x[n] \in Digits
  <2>1. s[e] = "." /\ \A n \in 1 .. e - 1 : s[n] \in Digits
    BY <1>1 DEF HasPoint, DigitsFrom
  <2>2. \A n \in 1 .. e - 1 : n \in 1 .. m
    BY <1>2
  <2> HIDE DEF m
  <2> QED
    BY <1>2, <2>1, <2>2
<1>4. x[1] \in Digits /\ ~ AllIn(x, Digits)
  <2>1. e \in 1 .. Len(x)
    BY <1>2
  <2> HIDE DEF m
  <2> QED
    BY <1>2, <1>3, <2>1, DotIsNoDigit DEF AllIn
<1>5. IsReal(x)
  BY <1>4, TokenStarts
<1>6. PICK d \in 2 .. Len(x) - 1 : HasPoint(x, d)
  BY <1>5, RealShape
<1>7. /\ x[d] = "." /\ \A n \in 1 .. d - 1 : x[n] \in Digits
      /\ \A n \in d + 1 .. Len(x) : x[n] \in Digits
  BY <1>6 DEF HasPoint, DigitsFrom
<1> HIDE DEF m
<1>8. e \notin 1 .. d - 1 /\ d \notin 1 .. e - 1
  BY <1>3, <1>7, DotIsNoDigit
<1>9. d = e
  BY <1>2, <1>8
<1>10. m + 1 \in d + 1 .. Len(x)
  BY <1>2, <1>9
<1> QED
  BY <1>2, <1>7, <1>10

LEMMA LongerQuoted ==
  ASSUME NEW s \in Seq(Chars), NEW x \in Seq(Chars), NEW c, Extends(x, s, c),
         IsClosed(s), c # "'"
  PROVE  ~ IsToken(x)
<1> SUFFICES ASSUME IsToken(x) PROVE FALSE
  OBVIOUS
<1> DEFINE m == Len(s)
<1>1. PICK W \in SUBSET (2 .. m) : QuotesOf(s, W) /\ m \in W
  BY DEF IsClosed
<1>2. /\ m \in Nat /\ m >= 2 /\ s[1] = "'" /\ Pairs(s, W)
      /\ \A n \in 2 .. m : n \in W => s[n] = "'"
  BY <1>1 DEF QuotesOf, Pairs
<1>3. /\ \A i \in 1 .. m : x[i] = s[i]
      /\ x[m + 1] = c /\ m + 1 \in 1 .. Len(x) /\ Len(x) \in Nat
  BY <1>2 DEF Extends
<1>4. x[1] = "'" /\ x[m] = "'"
  <2>1. s[m] = "'"
    BY <1>1, <1>2
  <2> HIDE DEF m
  <2> QED
    BY <1>2, <1>3, <2>1
<1>5. IsQuoted(x)
  BY <1>4, TokenStarts
<1>d. m = Len(s)
  OBVIOUS
<1> HIDE DEF m
<1>6. m \in 2 .. Len(x) - 1
  BY <1>2, <1>3
<1>7. EvenRun(x, m)
  BY <1>4, <1>5, <1>6 DEF IsQuoted
<1>8. PICK a \in 2 .. m, b \in m .. Len(x) - 1 :
         /\ \A k \in a .. b : x[k] = "'"
         /\ a = 2 \/ x[a - 1] # "'"
         /\ (b - a) % 2 = 1
  BY <1>7 DEF EvenRun
<1>9. b = m
  <2> SUFFICES ASSUME b # m PROVE FALSE
    OBVIOUS
  <2>1. m + 1 \in a .. b
    BY <1>2, <1>8
  <2> QED
    BY <1>3, <1>8, <2>1
<1>10. \A k \in a .. m : s[k] = "'"
  <2>1. \A k \in a .. m : k \in 1 .. m
    BY <1>2
  <2> QED
    BY <1>3, <1>8, <1>9, <2>1
<1>11. a - 1 \notin W
  <2>1. a - 1 \in W => a - 1 \in 2 .. m /\ s[a - 1] = "'"
    BY <1>1, <1>2
  <2>2. a - 1 \in 1 .. m
    BY <1>2
  <2> QED
    BY <1>2, <1>3, <1>8, <2>1, <2>2
<1>12. m \in W <=> (m - a) % 2 = 0
  <2>1. a \in 2 .. Len(s) /\ m \in a .. Len(s) /\ Len(s) \in Nat
    BY <1>2, <1>d
  <2> QED
    BY <1>2, <1>10, <1>11, <2>1, RunParity
<1> QED
  BY <1>1, <1>8, <1>9, <1>12

LEMMA LongerSign ==
  ASSUME NEW s \in Seq(Chars), NEW x \in Seq(Chars), NEW c, Extends(x, s, c),
         NEW at, Departure(at, c),
         \/ at \in Signs /\ s = << at >>
         \/ Len(s) = 2 /\ s[1] \in Signs
  PROVE  ~ IsToken(x)
<1> SUFFICES ASSUME IsToken(x) PROVE FALSE
  OBVIOUS
<1>1. Len(s) \in {1, 2} /\ s[1] \in Signs
  OBVIOUS
<1>2. x[1] = s[1] /\ Len(x) > Len(s) /\ x[Len(s) + 1] = c /\ Len(x) \in Nat
  BY <1>1 DEF Extends
<1>3. x \in Symbols
  BY <1>1, <1>2, TokenStarts
<1>4. /\ Len(x) = 2
      /\ /\ x[1] \in {"=", "<", ">", ":"}
         /\ x[1] = "=" => x[2] = "="
         /\ x[1] = "<" => x[2] \in {"=", ">"}
         /\ x[1] \in {">", ":"} => x[2] = "="
  BY <1>1, <1>2, <1>3, SymbolsStart
<1>5. Len(s) = 1 /\ at = x[1] /\ x[2] = c
  BY <1>1, <1>2, <1>4
<1> QED
  BY <1>4, <1>5 DEF Departure

-----------------------------------------------------------------------------
(* What is accepted, and its shape.                                        *)

WordTypes == {k[2] : k \in Keyword}
SignTypes == {o[2] : o \in Operator}
OtherTypes == {"IDENT", "INTCON", "REALCON", "CHARCON", "STRING"}

LEMMA TypesApart ==
  /\ \A type \in WordTypes : type \notin OtherTypes /\ type \notin SignTypes
  /\ \A type \in SignTypes : type \notin OtherTypes
  /\ "IDENT" \in OtherTypes
<1> DEFINE Types == {"PLUS", "MINUS", "TIMES", "RDIV", "EQL", "NEQ", "GTR", "GEQ", "LSS", "LEQ",
                     "LPARENT", "RPARENT", "LBRACK", "RBRACK", "COMMA", "SEMICOLON", "PERIOD",
                     "COLON", "BECOMES"}
<1>1. \A o \in Operator : o[2] \in Types
  BY DEF Operator
<1>2. \A k \in Keyword : k[2] \notin Types /\ k[2] \notin OtherTypes
  BY DEF Keyword, OtherTypes
<1>3. \A type \in Types : type \notin OtherTypes
  BY DEF OtherTypes
<1>4. "IDENT" \in OtherTypes
  BY DEF OtherTypes
<1> HIDE DEF Types
<1> QED
  BY <1>1, <1>2, <1>3, <1>4 DEF WordTypes, SignTypes

LEMMA Shapes ==
  ASSUME NEW type, NEW s
  PROVE  /\ type = "IDENT" => (HasShape(type, s) <=> IsWord(s) /\ ~ IsKeyword(s))
         /\ type = "INTCON" => (HasShape(type, s) <=> AllIn(s, Digits))
         /\ type = "REALCON" => (HasShape(type, s) <=> IsReal(s))
         /\ type \in {"CHARCON", "STRING"} => (HasShape(type, s) <=> IsQuoted(s))
         /\ type \in WordTypes => (HasShape(type, s) <=> << Uppers(s), type >> \in Keyword)
         /\ type \in SignTypes => (HasShape(type, s) <=> s \in Symbols)
<1>1. type \in WordTypes => type \notin OtherTypes
  BY TypesApart
<1>2. type \in SignTypes => type \notin OtherTypes /\ type \notin WordTypes
  BY TypesApart
<1>3. type \in OtherTypes => type \notin WordTypes
  BY TypesApart
<1> QED
  BY <1>1, <1>2, <1>3 DEF HasShape, WordTypes, OtherTypes, Uppers

(* An operator's name is its text.                                         *)
LEMMA OperatorNames ==
  \A o \in Operator : /\ (o[1] \in Signs \ {"="}) \/ o[1] \in {"==", "<>", ">=", "<=", ":="}
                      /\ o[1] \notin {"start", "=", "(*"}
<1>1. /\ \A at \in SignMarks : at \in Signs
      /\ Comma \in Signs /\ Semicolon \in Signs
      /\ Comma # "=" /\ Semicolon # "="
      /\ Comma \notin {"start", "=", "(*"} /\ Semicolon \notin {"start", "=", "(*"}
  <2>1. Comma \notin {"start", "=", "(*"} /\ Semicolon \notin {"start", "=", "(*"}
    BY Zenon DEF Comma, Semicolon
  <2> QED
    BY <2>1 DEF Signs
<1> QED
  BY <1>1 DEF Operator, SignMarks

LEMMA Accepting ==
  ASSUME NEW st, TokenFor(st) \notin {"none", "UNKNOWN", "RANGE"}
  PROVE  \/ st.at = "word" /\ (\E k \in Keyword : k = << st.word, TokenFor(st) >>)
         \/ st.at = "word" /\ TokenFor(st) = "IDENT" /\ (\A k \in Keyword : k[1] # st.word)
         \/ st.at = "identifier" /\ TokenFor(st) = "IDENT"
         \/ st.at = "integer" /\ TokenFor(st) = "INTCON"
         \/ st.at = "real" /\ TokenFor(st) = "REALCON"
         \/ st.at \in ClosedStates /\ TokenFor(st) \in {"CHARCON", "STRING"}
         \/ TokenFor(st) \in SignTypes /\ \E o \in Operator : o[1] = st.at
<1>1. CASE st.at = "word" /\ \E k \in Keyword : k[1] = st.word
  <2>1. PICK k \in Keyword : k[1] = st.word /\ k[2] = TokenFor(st)
    <3>1. TokenFor(st) = Find(Keyword, st.word)
      BY <1>1 DEF TokenFor
    <3> QED
      BY <1>1, <3>1 DEF Find
  <2>2. \A e \in Keyword : e = << e[1], e[2] >>
    BY DEF Keyword
  <2> QED
    BY <1>1, <2>1, <2>2
<1>2. CASE st.at = "word" /\ ~ \E k \in Keyword : k[1] = st.word
  BY <1>2 DEF TokenFor
<1>3. CASE st.at # "word" /\ st.at \in DOMAIN Accepted
  <2>1. TokenFor(st) = Accepted[st.at]
    BY <1>3 DEF TokenFor
  <2> QED
    BY <1>3, <2>1 DEF Accepted, ClosedStates
<1>4. CASE st.at # "word" /\ st.at \notin DOMAIN Accepted
  <2>1. (\E o \in Operator : o[1] = st.at) /\ TokenFor(st) = Find(Operator, st.at)
    BY <1>4 DEF TokenFor
  <2> QED
    BY <2>1, FoundType DEF SignTypes
<1> QED
  BY <1>1, <1>2, <1>3, <1>4

LEMMA SymbolForm ==
  ASSUME NEW st, NEW s, Form(st, s), NEW o \in Operator, o[1] = st.at
  PROVE  /\ s \in Symbols
         /\ \/ st.at \in Signs /\ s = << st.at >>
            \/ Len(s) = 2 /\ s[1] \in Signs
<1>1. CASE st.at \in Signs \ {"="}
  <2>1. s = << st.at >>
    BY <1>1 DEF Form
  <2>2. st.at \in {"+", "-", "*", "/", "<", ">", "(", ")", "[", "]", Comma, Semicolon, ".", ":"}
    BY <1>1 DEF Signs, SignMarks
  <2> QED
    BY <1>1, <2>1, <2>2 DEF Symbols
<1>2. CASE st.at \in {"==", "<>", ">=", "<=", ":="}
  <2>1. s \in Doubles
    BY <1>2 DEF Form, Doubles
  <2>2. s \in Symbols
    BY <2>1 DEF Symbols, Doubles
  <2>3. Len(s) = 2 /\ s[1] \in SignMarks
    BY <2>1 DEF Doubles, SignMarks
  <2> QED
    BY <2>2, <2>3 DEF Signs
<1> QED
  BY <1>1, <1>2, OperatorNames

LEMMA AcceptedShape ==
  ASSUME NEW st, NEW s \in Seq(Chars), Form(st, s),
         TokenFor(st) \notin {"none", "UNKNOWN", "RANGE"}
  PROVE  HasShape(TokenFor(st), s)
<1> DEFINE type == TokenFor(st)
<1>1. CASE st.at = "word" /\ \E k \in Keyword : k = << st.word, type >>
  <2>1. << Uppers(s), type >> \in Keyword
    BY <1>1 DEF Form
  <2>2. type \in WordTypes
    <3>1. << Uppers(s), type >>[2] = type
      OBVIOUS
    <3> QED
      BY <2>1, <3>1 DEF WordTypes
  <2> QED
    BY <2>1, <2>2, Shapes
<1>2. CASE st.at = "word" /\ type = "IDENT" /\ \A k \in Keyword : k[1] # st.word
  <2>1. IsWord(s) /\ ~ IsKeyword(s)
    BY <1>2 DEF Form, IsKeyword, Uppers
  <2> QED
    BY <1>2, <2>1, Shapes
<1>3. CASE st.at = "identifier" /\ type = "IDENT"
  <2>1. IsWord(s) /\ ~ IsKeyword(s)
    BY <1>3, NoKeyword DEF Form
  <2> QED
    BY <1>3, <2>1, Shapes
<1>4. CASE st.at = "integer" /\ type = "INTCON"
  BY <1>4, Shapes DEF Form
<1>5. CASE st.at = "real" /\ type = "REALCON"
  BY <1>5, Shapes DEF Form
<1>6. CASE st.at \in ClosedStates /\ type \in {"CHARCON", "STRING"}
  BY <1>6, Shapes, ClosedIsQuoted DEF Form
<1>7. CASE type \in SignTypes /\ \E o \in Operator : o[1] = st.at
  BY <1>7, Shapes, SymbolForm
<1> QED
  BY <1>1, <1>2, <1>3, <1>4, <1>5, <1>6, <1>7, Accepting

LEMMA AcceptedLongest ==
  ASSUME NEW st, NEW s \in Seq(Chars), Form(st, s),
         TokenFor(st) \notin {"none", "UNKNOWN", "RANGE"},
         NEW c, NextState(st, c) = Null, ~ (TokenFor(st) = "IDENT" /\ c \in Alphanumeric),
         NEW x \in Seq(Chars), Extends(x, s, c)
  PROVE  \/ ~ IsToken(x)
         \/ /\ TokenFor(st) \in {"ANDSY", "ARRAYSY", "DOWNTOSY"}
            /\ Upper(c) = Upper(s[Len(s)])
<1> DEFINE type == TokenFor(st)
           Leaves == /\ st.at = "identifier" => c \notin Alphanumeric
                     /\ st.at = "word" => c \notin Alphanumeric \/ HasGap(st.word, c)
                     /\ st.at \notin {"word", "identifier"} => Departure(st.at, c)
<1>0. st.at # "start" => Leaves
  BY Blocking
<1>1. CASE st.at = "word" /\ \E k \in Keyword : k = << st.word, type >>
  <2>1. IsWord(s) /\ Uppers(s) = st.word
    BY <1>1 DEF Form
  <2>2. CASE c \notin Alphanumeric
    BY <2>1, <2>2, LongerWord
  <2>3. CASE HasGap(st.word, c)
    <3>1. st.word \in Gap /\ Upper(c) = st.word[Len(st.word)]
      BY <2>3 DEF HasGap
    <3>2. << st.word, type >> \in Keyword
      BY <1>1
    <3>3. << st.word, type >>[1] = st.word /\ << st.word, type >>[2] = type
      OBVIOUS
    <3>4. type \in {"ANDSY", "ARRAYSY", "DOWNTOSY"}
      BY <3>1, <3>2, <3>3, GapKeywords
    <3>5. Len(st.word) = Len(s) /\ Len(s) \in 1 .. Len(s) /\ st.word[Len(s)] = Upper(s[Len(s)])
      <4>1. Len(s) \in 1 .. Len(s)
        BY <2>1 DEF IsWord, AllIn
      <4> QED
        BY <2>1, <4>1, UppersType
    <3> QED
      BY <3>1, <3>4, <3>5
  <2> QED
    BY <1>0, <1>1, <2>2, <2>3
<1>2. CASE st.at = "word" /\ type = "IDENT"
  <2>1. IsWord(s) /\ c \notin Alphanumeric
    BY <1>2 DEF Form
  <2> QED
    BY <2>1, LongerWord
<1>3. CASE st.at = "identifier" /\ type = "IDENT"
  <2>1. IsWord(s) /\ c \notin Alphanumeric
    BY <1>3 DEF Form
  <2> QED
    BY <2>1, LongerWord
<1>4. CASE st.at = "integer"
  <2>1. AllIn(s, Digits) /\ c \notin Digits /\ c # "."
    BY <1>0, <1>4 DEF Form, Departure
  <2> QED
    BY <2>1, LongerInteger
<1>5. CASE st.at = "real"
  <2>1. IsReal(s) /\ c \notin Digits
    BY <1>0, <1>5 DEF Form, Departure
  <2> QED
    BY <2>1, LongerReal
<1>6. CASE st.at \in ClosedStates
  <2>1. IsClosed(s) /\ c # "'"
    BY <1>0, <1>6 DEF Form, Departure, ClosedStates
  <2> QED
    BY <2>1, LongerQuoted
<1>7. CASE \E o \in Operator : o[1] = st.at
  <2>1. st.at # "start" /\ st.at \notin {"word", "identifier"}
    <3>1. st.at \in Signs \ {"="} \/ st.at \in {"==", "<>", ">=", "<=", ":="}
      BY <1>7, OperatorNames
    <3> QED
      BY <3>1, NamesAreNoSigns DEF Names
  <2>2. Departure(st.at, c)
    BY <1>0, <2>1
  <2> QED
    BY <1>7, <2>2, SymbolForm, LongerSign
<1> QED
  BY <1>1, <1>2, <1>3, <1>4, <1>5, <1>6, <1>7, Accepting

-----------------------------------------------------------------------------
(* The lexeme under way has the form of the automaton's state; behind the  *)
(* automaton, an identifier has left the keywords.                         *)

FormInv ==
  /\ mode = "scan" => Form(state, lexeme)
  /\ mode = "identifier" => IsWord(lexeme) /\ LeavesKeywords(lexeme)

LEMMA StartForm == Form(Start, << >>)
<1>1. Start.at = "start" /\ "start" \notin Signs
  BY NamesAreNoSigns DEF Start, At, Names
<1> QED
  BY <1>1 DEF Form, OpenStates, ClosedStates

LEMMA RestartForm ==
  ASSUME Restart, mode' # "identifier"
  PROVE  FormInv'
BY StartForm DEF Restart, FormInv

LEMMA CurrentChar ==
  ASSUME IInv, Available
  PROVE  Current \in Chars
<1>1. Place \in 1 .. Len(input) /\ Current = input[Place] /\ input \in Seq(Chars)
  BY Hand, InputSeq
<1> QED
  BY <1>1, ElementOfSeq

LEMMA LexemeChars ==
  ASSUME IInv
  PROVE  lexeme \in Seq(Chars)
<1>1. CASE lexeme = << >>
  BY <1>1
<1>2. CASE lexeme # << >>
  BY <1>2, LexemeText
<1> QED
  BY <1>1, <1>2

LEMMA LeaveAutomatonForm ==
  ASSUME IInv, FormInv, LeaveAutomaton
  PROVE  FormInv'
<1>1. /\ Available /\ NextState(state, Current) = Null /\ TokenFor(state) = "IDENT"
      /\ Current \in Alphanumeric /\ lexeme' = Append(lexeme, Current) /\ mode' = "identifier"
      /\ mode = "scan"
  BY DEF LeaveAutomaton, Blocked, Steps
<1>2. lexeme \in Seq(Chars) /\ Current \in Chars /\ Form(state, lexeme)
  BY <1>1, CurrentChar, LexemeChars DEF FormInv
<1>3. state.at \in {"word", "identifier"}
  <2>1. "IDENT" \notin WordTypes /\ "IDENT" \notin SignTypes
    BY TypesApart
  <2>2. \A k \in Keyword : k[2] # "IDENT"
    BY <2>1 DEF WordTypes
  <2> QED
    BY <1>1, <2>1, Accepting
<1>4. IsWord(lexeme)
  BY <1>2, <1>3 DEF Form
<1>5. state.at = "word" /\ HasGap(state.word, Current)
  <2>1. ~ (state.at = "start" /\ Current \in Letters)
    BY <1>3
  <2> QED
    BY <1>1, <1>3, <2>1, Blocking
<1>6. Uppers(lexeme) = state.word /\ state.word \in Gap
  BY <1>2, <1>5 DEF Form, HasGap
<1>7. IsWord(Append(lexeme, Current)) /\ LeavesKeywords(Append(lexeme, Current))
  BY <1>1, <1>2, <1>4, <1>5, <1>6, GapLeaves, IsWordGrows
<1> QED
  BY <1>1, <1>7 DEF FormInv

LEMMA ExtendForm ==
  ASSUME IInv, FormInv, Extend
  PROVE  FormInv'
<1>1. /\ Available /\ NextState(state, Current) # Null /\ lexeme' = Append(lexeme, Current)
      /\ mode = "scan"
      /\ mode' = "comment" \/ (state' = NextState(state, Current) /\ mode' = "scan")
  BY DEF Extend, Steps
<1>2. Form(NextState(state, Current), Append(lexeme, Current))
  BY <1>1, CurrentChar, LexemeChars, FormGrows DEF FormInv
<1> QED
  BY <1>1, <1>2 DEF FormInv

LEMMA FormStep == IInv /\ FormInv /\ [Next]_vars => FormInv'
<1> SUFFICES ASSUME IInv, FormInv, [Next]_vars PROVE FormInv'
  OBVIOUS
<1>1. CASE Accept \/ RejectChar \/ RejectAtBlank \/ RejectAtBoundary
  <2>1. Restart /\ mode' = "scan"
    BY <1>1 DEF Accept, RejectChar, RejectAtBlank, RejectAtBoundary, Blocked, Steps
  <2> QED
    BY <2>1, RestartForm
<1>2. CASE Finish \/ UnterminatedComment \/ EndIdentifier \/ EndUnknown
  <2>1. Restart /\ mode' # "identifier"
    BY <1>2 DEF Finish, UnterminatedComment, EndIdentifier, EndUnknown
  <2> QED
    BY <2>1, RestartForm
<1>3. CASE OpenBrace \/ Reject \/ ReadUnknown
  BY <1>3 DEF OpenBrace, Reject, ReadUnknown, FormInv
<1>4. CASE ReadComment
  <2>1. (Restart /\ mode' = "scan") \/ (mode' = mode /\ mode = "comment")
    BY <1>4 DEF ReadComment
  <2> QED
    BY <2>1, RestartForm DEF FormInv
<1>5. CASE SkipBlank
  <2>1. Restart /\ mode' = "scan"
    BY <1>5 DEF SkipBlank, Restart
  <2> QED
    BY <2>1, RestartForm
<1>6. CASE ReadIdentifier
  <2>1. /\ Available /\ Current \in Alphanumeric /\ lexeme' = Append(lexeme, Current)
        /\ mode = "identifier" /\ mode' = mode
    BY <1>6 DEF ReadIdentifier
  <2>2. IsWord(lexeme) /\ LeavesKeywords(lexeme)
    BY <2>1 DEF FormInv
  <2>3. IsWord(lexeme') /\ LeavesKeywords(lexeme')
    BY <2>1, <2>2, CurrentChar, LexemeChars, IsWordGrows, LeavesFurther
  <2> QED
    BY <2>1, <2>3 DEF FormInv
<1>7. CASE Done \/ UNCHANGED vars
  BY <1>7 DEF Done, vars, FormInv
<1> QED
  BY <1>1, <1>2, <1>3, <1>4, <1>5, <1>6, <1>7, LeaveAutomatonForm, ExtendForm DEF Next, Step

LEMMA Forms == Spec => []FormInv
<1>1. Init => FormInv
  BY StartForm DEF Init, FormInv
<1> QED
  BY <1>1, FormStep, Invariance, PTL DEF Spec

-----------------------------------------------------------------------------
(* Every token is as long as it can be.                                    *)

UpperBoundIn(r, i) ==
  /\ i > 3
  /\ \A n \in i - 2 .. i - 1 :
       r[n].type = "PERIOD" /\ r[n].last + 1 = r[n + 1].first
  /\ r[i - 3].type = "INTCON" /\ r[i - 3].last + 1 = r[i - 2].first

LacksIn(x, t) ==
  /\ t.type \in {"ANDSY", "ARRAYSY", "DOWNTOSY"}
  /\ Upper(x[t.last + 1]) = Upper(x[t.last])

(* Nothing longer is a token, or nothing but a real.                       *)
Ends(x, t) ==
  \A n \in t.last + 1 .. Len(x) : ~ IsToken(SubSeq(x, t.first, n)) \/ LacksIn(x, t)

EndsReal(x, t) ==
  \A n \in t.last + 1 .. Len(x) :
    LET longer == SubSeq(x, t.first, n) IN ~ IsToken(longer) \/ IsReal(longer)

Fits(t) ==
  /\ t.type \notin {"UNKNOWN", "COMMENT"} => HasShape(t.type, t.text)
  /\ t.type \in {"CHARCON", "STRING"} => IsClosed(t.text)

Longest(x, r, i) ==
  r[i].type \notin {"UNKNOWN", "COMMENT"} =>
    Ends(x, r[i]) \/ (UpperBoundIn(r, i) /\ EndsReal(x, r[i]))

AllLongest(x, r) == \A i \in 1 .. Len(r) : Fits(r[i]) /\ Longest(x, r, i)

LEMMA BoundsTogether ==
  ASSUME NEW r \in Seq(Token), NEW ts \in Seq(Token)
  PROVE  /\ \A i \in 1 .. Len(r) : UpperBoundIn(r, i) => UpperBoundIn(r \o ts, i)
         /\ \A i \in 1 .. Len(ts) : UpperBoundIn(ts, i) => UpperBoundIn(r \o ts, Len(r) + i)
<1> DEFINE u == r \o ts
           m == Len(r)
<1>1. m \in Nat /\ Len(ts) \in Nat /\ \A i \in 1 .. m : u[i] = r[i]
  OBVIOUS
<1>2. \A i \in 1 .. Len(ts) : u[m + i] = ts[i]
  OBVIOUS
<1> HIDE DEF u, m
<1>3. ASSUME NEW i \in 1 .. m, UpperBoundIn(r, i) PROVE UpperBoundIn(u, i)
  <2>1. i > 3 /\ \A n \in i - 3 .. i : u[n] = r[n]
    BY <1>1, <1>3 DEF UpperBoundIn
  <2>2. \A n \in i - 2 .. i - 1 : n \in i - 3 .. i /\ n + 1 \in i - 3 .. i
    BY <1>1
  <2>3. i - 3 \in i - 3 .. i /\ i - 2 \in i - 3 .. i
    BY <1>1
  <2> QED
    BY <1>3, <2>1, <2>2, <2>3 DEF UpperBoundIn
<1>4. ASSUME NEW i \in 1 .. Len(ts), UpperBoundIn(ts, i) PROVE UpperBoundIn(u, m + i)
  <2>1. i > 3
    BY <1>4 DEF UpperBoundIn
  <2>2. \A n \in (m + i) - 3 .. m + i : n - m \in i - 3 .. i /\ u[n] = ts[n - m]
    <3> SUFFICES ASSUME NEW n \in (m + i) - 3 .. m + i
                 PROVE  n - m \in i - 3 .. i /\ u[n] = ts[n - m]
      OBVIOUS
    <3>1. n - m \in 1 .. Len(ts) /\ m + (n - m) = n /\ n - m \in i - 3 .. i
      BY <1>1, <2>1
    <3> QED
      BY <1>2, <3>1
  <2>3. ASSUME NEW n \in (m + i) - 2 .. (m + i) - 1
        PROVE  u[n].type = "PERIOD" /\ u[n].last + 1 = u[n + 1].first
    <3>1. /\ n \in (m + i) - 3 .. m + i /\ n + 1 \in (m + i) - 3 .. m + i
          /\ n - m \in i - 2 .. i - 1 /\ (n + 1) - m = (n - m) + 1
      BY <1>1
    <3> QED
      BY <1>4, <2>2, <3>1 DEF UpperBoundIn
  <2>4. u[(m + i) - 3].type = "INTCON" /\ u[(m + i) - 3].last + 1 = u[(m + i) - 2].first
    <3>1. /\ (m + i) - 3 \in (m + i) - 3 .. m + i /\ (m + i) - 2 \in (m + i) - 3 .. m + i
          /\ ((m + i) - 3) - m = i - 3 /\ ((m + i) - 2) - m = i - 2
      BY <1>1
    <3> QED
      BY <1>4, <2>2, <3>1 DEF UpperBoundIn
  <2>5. m + i > 3
    BY <1>1, <2>1
  <2> QED
    BY <2>3, <2>4, <2>5 DEF UpperBoundIn
<1> QED
  BY <1>3, <1>4 DEF u, m

LEMMA LongestTogether ==
  ASSUME NEW x, NEW r \in Seq(Token), NEW ts \in Seq(Token), AllLongest(x, r), AllLongest(x, ts)
  PROVE  AllLongest(x, r \o ts)
<1> DEFINE u == r \o ts
           m == Len(r)
<1>1. m \in Nat /\ Len(ts) \in Nat /\ Len(u) = m + Len(ts) /\ \A i \in 1 .. m : u[i] = r[i]
  OBVIOUS
<1>2. \A i \in 1 .. Len(ts) : u[m + i] = ts[i]
  OBVIOUS
<1>3. /\ \A i \in 1 .. m : UpperBoundIn(r, i) => UpperBoundIn(u, i)
      /\ \A i \in 1 .. Len(ts) : UpperBoundIn(ts, i) => UpperBoundIn(u, m + i)
  BY BoundsTogether
<1> HIDE DEF u, m
<1>4. ASSUME NEW i \in 1 .. Len(u) PROVE Fits(u[i]) /\ Longest(x, u, i)
  <2>1. CASE i \in 1 .. m
    <3>1. u[i] = r[i] /\ Fits(r[i]) /\ Longest(x, r, i)
      BY <1>1, <2>1 DEF AllLongest, m
    <3> QED
      BY <1>3, <2>1, <3>1 DEF Longest
  <2>2. CASE i \notin 1 .. m
    <3>1. i - m \in 1 .. Len(ts) /\ m + (i - m) = i
      BY <1>1, <2>2
    <3>2. u[i] = ts[i - m] /\ Fits(ts[i - m]) /\ Longest(x, ts, i - m)
      BY <1>2, <3>1 DEF AllLongest
    <3>3. UpperBoundIn(ts, i - m) => UpperBoundIn(u, i)
      BY <1>3, <3>1
    <3> QED
      BY <3>2, <3>3 DEF Longest
  <2> QED
    BY <2>1, <2>2
<1> QED
  BY <1>4 DEF AllLongest, u

(* A piece of the text, and a longer one from the same place.              *)
LEMMA LongerPiece ==
  ASSUME NEW x \in Seq(Chars), NEW a \in 1 .. Len(x), NEW e \in a .. Len(x),
         NEW n \in e + 1 .. Len(x)
  PROVE  /\ SubSeq(x, a, n) \in Seq(Chars) /\ SubSeq(x, a, e) \in Seq(Chars)
         /\ Extends(SubSeq(x, a, n), SubSeq(x, a, e), x[e + 1])
<1>1. /\ \A i \in a .. n : x[i] \in Chars
      /\ \A i \in a .. e : x[i] \in Chars
  BY ElementOfSeq
<1> DEFINE s == SubSeq(x, a, e)
           y == SubSeq(x, a, n)
<1>2. /\ s \in Seq(Chars) /\ Len(s) = e - a + 1
      /\ \A i \in 1 .. e - a + 1 : s[i] = x[a + i - 1]
  BY <1>1, SubSeqProperties
<1>3. /\ y \in Seq(Chars) /\ Len(y) = n - a + 1
      /\ \A i \in 1 .. n - a + 1 : y[i] = x[a + i - 1]
  BY <1>1, SubSeqProperties
<1> HIDE DEF s, y
<1>4. \A i \in 1 .. Len(s) : i \in 1 .. n - a + 1 /\ i \in 1 .. e - a + 1
  BY <1>2
<1>5. Len(s) + 1 \in 1 .. n - a + 1 /\ a + (Len(s) + 1) - 1 = e + 1 /\ Len(y) > Len(s)
  BY <1>2, <1>3
<1>6. Extends(y, s, x[e + 1])
  BY <1>2, <1>3, <1>4, <1>5 DEF Extends
<1> QED
  BY <1>2, <1>3, <1>6 DEF s, y

(* A single token.                                                         *)
LEMMA OneLongest ==
  ASSUME NEW x, NEW t, Fits(t), t.type \notin {"UNKNOWN", "COMMENT"} => Ends(x, t)
  PROVE  AllLongest(x, << t >>)
<1>1. Len(<< t >>) = 1 /\ << t >>[1] = t
  OBVIOUS
<1> QED
  BY <1>1 DEF AllLongest, Longest

LEMMA AcceptedClosed ==
  ASSUME NEW st, NEW s, Form(st, s), TokenFor(st) \in {"CHARCON", "STRING"}
  PROVE  IsClosed(s)
<1>1. TokenFor(st) \notin WordTypes /\ TokenFor(st) \notin SignTypes
  BY TypesApart DEF OtherTypes
<1>2. \A k \in Keyword : k[2] # TokenFor(st)
  BY <1>1 DEF WordTypes
<1>3. st.at \in ClosedStates
  BY <1>1, <1>2, Accepting
<1> QED
  BY <1>3 DEF Form

(* The four tokens of a range.                                             *)
LEMMA DotPlace ==
  ASSUME NEW s \in Seq(Chars), NEW d \in 2 .. Len(s) - 2,
         DigitsFrom(s, 1, d - 1), s[d] = ".", s[d + 1] = ".", DigitsFrom(s, d + 2, Len(s))
  PROVE  DotsOf(s) = d
<1> DEFINE e == DotsOf(s)
<1>1. e \in 2 .. Len(s) - 2 /\ s[e] = "." /\ s[e + 1] = "."
  BY DEF DotsOf
<1> HIDE DEF e
<1>2. e \notin 1 .. d - 1 /\ e \notin d + 2 .. Len(s)
  BY <1>1, DotIsNoDigit DEF DigitsFrom
<1>3. e + 1 \notin 1 .. d - 1 /\ e + 1 \notin d + 2 .. Len(s)
  BY <1>1, DotIsNoDigit DEF DigitsFrom
<1>4. Len(s) \in Nat
  OBVIOUS
<1>5. e = d
  BY <1>1, <1>2, <1>3, <1>4
<1> QED
  BY <1>5 DEF e

LEMMA PeriodSigns ==
  /\ "PERIOD" \in SignTypes /\ << "." >> \in Symbols /\ "." \in Signs
  /\ \A c : Departure(".", c)
  /\ "PERIOD" \notin {"UNKNOWN", "COMMENT", "CHARCON", "STRING"}
  /\ "INTCON" \notin {"UNKNOWN", "COMMENT", "CHARCON", "STRING"}
<1>1. << ".", "PERIOD" >> \in Operator /\ << ".", "PERIOD" >>[2] = "PERIOD"
  BY DEF Operator
<1>2. "PERIOD" \in SignTypes
  BY <1>1 DEF SignTypes
<1>3. << "." >> \in Symbols
  BY DEF Symbols
<1> QED
  BY <1>2, <1>3 DEF Signs, SignMarks, Departure, ClosedStates

(* A period between two numbers.                                           *)
LEMMA PeriodEnds ==
  ASSUME NEW x \in Seq(Chars), NEW b \in 1 .. Len(x), x[b] = ".",
         NEW t, t = [type |-> "PERIOD", text |-> << "." >>, first |-> b, last |-> b]
  PROVE  Fits(t) /\ Ends(x, t)
<1>1. Fits(t)
  BY PeriodSigns, Shapes DEF Fits
<1>2. ASSUME NEW n \in b + 1 .. Len(x) PROVE ~ IsToken(SubSeq(x, b, n))
  <2>1. b \in b .. Len(x)
    OBVIOUS
  <2>2. SubSeq(x, b, b) = << "." >>
    BY OneCharacter
  <2>3. /\ SubSeq(x, b, n) \in Seq(Chars) /\ SubSeq(x, b, b) \in Seq(Chars)
        /\ Extends(SubSeq(x, b, n), SubSeq(x, b, b), x[b + 1])
    BY <2>1, LongerPiece
  <2> DEFINE y == SubSeq(x, b, n)
             s == SubSeq(x, b, b)
  <2>4. s = << "." >>
    BY <2>2
  <2> HIDE DEF y, s
  <2>5. y \in Seq(Chars) /\ s \in Seq(Chars) /\ Extends(y, s, x[b + 1])
    BY <2>3 DEF y, s
  <2>6. ~ IsToken(y)
    BY <2>4, <2>5, PeriodSigns, LongerSign
  <2> QED
    BY <2>6 DEF y
<1> QED
  BY <1>1, <1>2 DEF Ends

(* A number before two points, or before what is no digit.                 *)
LEMMA NumberEnds ==
  ASSUME NEW x \in Seq(Chars), NEW a \in 1 .. Len(x), NEW e \in a .. Len(x),
         DigitsFrom(x, a, e), e < Len(x) => x[e + 1] \notin Digits,
         NEW t, t = [type |-> "INTCON", text |-> SubSeq(x, a, e), first |-> a, last |-> e]
  PROVE  /\ Fits(t) /\ EndsReal(x, t)
         /\ e + 1 < Len(x) /\ x[e + 1] = "." /\ x[e + 2] = "." => Ends(x, t)
<1> DEFINE s == SubSeq(x, a, e)
<1>1. /\ s \in Seq(Chars) /\ Len(s) = e - a + 1
      /\ \A i \in 1 .. e - a + 1 : s[i] = x[a + i - 1]
  <2>1. \A i \in a .. e : x[i] \in Chars
    BY ElementOfSeq
  <2> QED
    BY <2>1, SubSeqProperties
<1>2. AllIn(s, Digits)
  <2> HIDE DEF s
  <2>1. \A i \in 1 .. Len(s) : i \in 1 .. e - a + 1 /\ a + i - 1 \in a .. e
    BY <1>1
  <2>2. s # << >>
    BY <1>1
  <2>3. \A i \in 1 .. Len(s) : s[i] \in Digits
    BY <1>1, <2>1 DEF DigitsFrom
  <2> QED
    BY <2>2, <2>3 DEF AllIn
<1>3. Fits(t)
  BY <1>2, PeriodSigns, Shapes DEF Fits
<1>4. ASSUME NEW n \in e + 1 .. Len(x), IsToken(SubSeq(x, a, n))
      PROVE  /\ IsReal(SubSeq(x, a, n))
             /\ x[e + 2] \in Digits
  <2> DEFINE y == SubSeq(x, a, n)
  <2>1. y \in Seq(Chars) /\ Extends(y, s, x[e + 1])
    BY LongerPiece
  <2>2. Len(y) = n - a + 1 /\ \A i \in 1 .. n - a + 1 : y[i] = x[a + i - 1]
    <3>1. \A i \in a .. n : x[i] \in Chars
      BY ElementOfSeq
    <3> QED
      BY <3>1, SubSeqProperties
  <2>3. IsToken(y) /\ x[e + 1] \notin Digits
    BY <1>4
  <2> HIDE DEF s, y
  <2>4. IsReal(y) /\ Len(s) + 2 \in 1 .. Len(y) /\ y[Len(s) + 2] \in Digits
    BY <1>1, <1>2, <2>1, <2>3, LongerInteger
  <2>5. a + (Len(s) + 2) - 1 = e + 2 /\ Len(s) + 2 \in 1 .. n - a + 1
    BY <1>1, <2>2, <2>4
  <2>6. y[Len(s) + 2] = x[e + 2]
    BY <2>2, <2>5
  <2> QED
    BY <2>4, <2>6 DEF y
<1>5. EndsReal(x, t)
  BY <1>4 DEF EndsReal
<1>6. ASSUME x[e + 2] = "." PROVE Ends(x, t)
  BY <1>4, <1>6, DotIsNoDigit DEF Ends
<1> QED
  BY <1>3, <1>5, <1>6

LEMMA RangeLongest ==
  ASSUME NEW x \in Seq(Chars), NEW a \in 1 .. Len(x), NEW e \in a .. Len(x),
         NEW text, text = SubSeq(x, a, e), IsRange(text), e < Len(x) => x[e + 1] \notin Digits
  PROVE  /\ AllLongest(x, RangeTokens(text, a))
         /\ HasDots(text)
<1>1. /\ text \in Seq(Chars) /\ Len(text) = e - a + 1
      /\ \A i \in 1 .. e - a + 1 : text[i] = x[a + i - 1]
  <2>1. \A i \in a .. e : x[i] \in Chars
    BY ElementOfSeq
  <2> QED
    BY <2>1, SubSeqProperties
<1>2. PICK d \in 2 .. Len(text) - 2 : /\ DigitsFrom(text, 1, d - 1)
                                      /\ text[d] = "." /\ text[d + 1] = "."
                                      /\ DigitsFrom(text, d + 2, Len(text))
  BY DEF IsRange
<1>3. DotsOf(text) = d
  BY <1>1, <1>2, DotPlace
<1> DEFINE b == a + d - 1
           t1 == Tok("INTCON", SubSeq(text, 1, d - 1), a)
           t2 == Tok("PERIOD", << "." >>, a + d - 1)
           t3 == Tok("PERIOD", << "." >>, a + d)
           t4 == Tok("INTCON", SubSeq(text, d + 2, Len(text)), a + d + 1)
<1>4. RangeTokens(text, a) = << t1, t2, t3, t4 >>
  BY <1>3 DEF RangeTokens
<1>5. /\ d \in Nat /\ b \in Nat /\ a < b /\ b + 2 <= e /\ a + d = b + 1 /\ a + d + 1 = b + 2
      /\ Len(text) \in Nat /\ Len(x) \in Nat
  BY <1>1
<1>6. a + d - 1 = b
  OBVIOUS
<1> HIDE DEF b
<1>7. /\ x[b] = "." /\ x[b + 1] = "."
      /\ DigitsFrom(x, a, b - 1) /\ DigitsFrom(x, b + 2, e)
  <2>1. text[d] = x[a + d - 1] /\ text[d + 1] = x[a + (d + 1) - 1]
    BY <1>1
  <2>2. a + d - 1 = b /\ a + (d + 1) - 1 = b + 1
    BY <1>5 DEF b
  <2>3. ASSUME NEW i \in a .. b - 1 PROVE x[i] \in Digits
    <3>1. i - a + 1 \in 1 .. d - 1 /\ i - a + 1 \in 1 .. e - a + 1 /\ a + (i - a + 1) - 1 = i
      BY <1>1, <1>5 DEF b
    <3>2. text[i - a + 1] = x[i]
      BY <1>1, <3>1
    <3> QED
      BY <1>2, <3>1, <3>2 DEF DigitsFrom
  <2>4. ASSUME NEW i \in b + 2 .. e PROVE x[i] \in Digits
    <3>1. i - a + 1 \in d + 2 .. Len(text) /\ i - a + 1 \in 1 .. e - a + 1 /\ a + (i - a + 1) - 1 = i
      BY <1>1, <1>5 DEF b
    <3>2. text[i - a + 1] = x[i]
      BY <1>1, <3>1
    <3> QED
      BY <1>2, <3>1, <3>2 DEF DigitsFrom
  <2> QED
    BY <1>2, <2>1, <2>2, <2>3, <2>4 DEF DigitsFrom
<1>8. SubSeq(text, 1, d - 1) = SubSeq(x, a, b - 1)
  <2>1. /\ 1 \in 1 .. e - a + 1 /\ d - 1 \in 1 .. e - a + 1
        /\ a + 1 - 1 = a /\ a + (d - 1) - 1 = b - 1
    BY <1>1, <1>2, <1>5, <1>6
  <2>2. \A m, n \in 1 .. e - a + 1 : SubSeq(SubSeq(x, a, e), m, n) = SubSeq(x, a + m - 1, a + n - 1)
    BY SubSeqOfSubSeq
  <2> QED
    BY <2>1, <2>2
<1>9. SubSeq(text, d + 2, Len(text)) = SubSeq(x, b + 2, e)
  <2>1. /\ d + 2 \in 1 .. e - a + 1 /\ Len(text) \in 1 .. e - a + 1
        /\ a + (d + 2) - 1 = b + 2 /\ a + Len(text) - 1 = e
    BY <1>1, <1>2, <1>5, <1>6
  <2>2. \A m, n \in 1 .. e - a + 1 : SubSeq(SubSeq(x, a, e), m, n) = SubSeq(x, a + m - 1, a + n - 1)
    BY SubSeqOfSubSeq
  <2> QED
    BY <2>1, <2>2
<1>10. /\ a \in 1 .. Len(x) /\ b - 1 \in a .. Len(x) /\ b \in 1 .. Len(x) /\ b + 1 \in 1 .. Len(x)
       /\ b + 2 \in 1 .. Len(x) /\ e \in b + 2 .. Len(x)
       /\ (b - 1) + 1 = b /\ (b - 1) + 2 = b + 1
  BY <1>5
<1>11. t1 = [type |-> "INTCON", text |-> SubSeq(x, a, b - 1), first |-> a, last |-> b - 1]
  <2>1. Len(SubSeq(x, a, b - 1)) = (b - 1) - a + 1
    <3>1. \A i \in a .. b - 1 : x[i] \in Chars
      BY <1>10, ElementOfSeq
    <3> QED
      BY <1>10, <3>1, SubSeqProperties
  <2>2. a + Len(SubSeq(x, a, b - 1)) - 1 = b - 1
    BY <1>5, <2>1
  <2> QED
    BY <1>8, <2>2 DEF Tok
<1>12. /\ t2 = [type |-> "PERIOD", text |-> << "." >>, first |-> b, last |-> b]
       /\ t3 = [type |-> "PERIOD", text |-> << "." >>, first |-> b + 1, last |-> b + 1]
  <2>1. Len(<< "." >>) = 1
    OBVIOUS
  <2>2. (a + d - 1) + 1 - 1 = b /\ (a + d) + 1 - 1 = b + 1
    BY <1>5, <1>6
  <2>3. \A at : Tok("PERIOD", << "." >>, at)
               = [type |-> "PERIOD", text |-> << "." >>, first |-> at, last |-> at + 1 - 1]
    BY <2>1 DEF Tok
  <2>4. /\ t2 = [type |-> "PERIOD", text |-> << "." >>, first |-> a + d - 1, last |-> (a + d - 1) + 1 - 1]
        /\ t3 = [type |-> "PERIOD", text |-> << "." >>, first |-> a + d, last |-> (a + d) + 1 - 1]
    BY <2>3
  <2> QED
    BY <1>5, <1>6, <2>2, <2>4
<1>13. t4 = [type |-> "INTCON", text |-> SubSeq(x, b + 2, e), first |-> b + 2, last |-> e]
  <2>1. Len(SubSeq(x, b + 2, e)) = e - (b + 2) + 1
    <3>1. \A i \in b + 2 .. e : x[i] \in Chars
      BY <1>10, ElementOfSeq
    <3> QED
      BY <1>10, <3>1, SubSeqProperties
  <2>2. (b + 2) + Len(SubSeq(x, b + 2, e)) - 1 = e
    BY <1>5, <2>1
  <2> QED
    BY <1>5, <1>9, <2>2 DEF Tok
<1> HIDE DEF t1, t2, t3, t4
<1>14. Fits(t1) /\ Ends(x, t1)
  <2> DEFINE m == b - 1
  <2>1. /\ m \in a .. Len(x) /\ m + 1 < Len(x) /\ x[m + 1] = "." /\ x[m + 2] = "."
        /\ DigitsFrom(x, a, m)
    BY <1>5, <1>7, <1>10
  <2>2. t1 = [type |-> "INTCON", text |-> SubSeq(x, a, m), first |-> a, last |-> m]
    BY <1>11
  <2>3. x[m + 1] \notin Digits
    BY <2>1, DotIsNoDigit
  <2> HIDE DEF m
  <2> QED
    BY <1>10, <2>1, <2>2, <2>3, NumberEnds
<1>15. Fits(t2) /\ Ends(x, t2) /\ Fits(t3) /\ Ends(x, t3)
  BY <1>7, <1>10, <1>12, PeriodEnds
<1>16. Fits(t4) /\ EndsReal(x, t4)
  BY <1>7, <1>10, <1>13, NumberEnds
<1> DEFINE ts == << t1, t2, t3, t4 >>
<1>17. Len(ts) = 4 /\ ts[1] = t1 /\ ts[2] = t2 /\ ts[3] = t3 /\ ts[4] = t4
  OBVIOUS
<1> HIDE DEF ts
<1>18. UpperBoundIn(ts, 4)
  <2>1. /\ t1.type = "INTCON" /\ t1.last + 1 = t2.first
        /\ t2.type = "PERIOD" /\ t2.last + 1 = t3.first
        /\ t3.type = "PERIOD" /\ t3.last + 1 = t4.first
    BY <1>5, <1>11, <1>12, <1>13
  <2> QED
    BY <1>17, <2>1 DEF UpperBoundIn
<1>19. AllLongest(x, ts)
  BY <1>14, <1>15, <1>16, <1>17, <1>18 DEF AllLongest, Longest
<1> QED
  BY <1>1, <1>2, <1>4, <1>19 DEF HasDots, ts

(* What is emitted at the end of the text, or before a character that no   *)
(* longer token goes on with.                                              *)
LEMMA TextLongest ==
  ASSUME NEW x \in Seq(Chars), NEW a \in 1 .. Len(x), NEW e \in a .. Len(x),
         NEW text, text = SubSeq(x, a, e), NEW type, type # "RANGE",
         type \notin {"UNKNOWN", "COMMENT"} => HasShape(type, text),
         type \in {"CHARCON", "STRING"} => IsClosed(text),
         \/ e = Len(x)
         \/ type \in {"UNKNOWN", "COMMENT"}
         \/ \A y \in Seq(Chars) : Extends(y, text, x[e + 1]) =>
              \/ ~ IsToken(y)
              \/ /\ type \in {"ANDSY", "ARRAYSY", "DOWNTOSY"}
                 /\ Upper(x[e + 1]) = Upper(text[Len(text)])
  PROVE  AllLongest(x, TokensOf(type, text, a))
<1> DEFINE t == Tok(type, text, a)
<1>1. /\ Len(text) = e - a + 1 /\ \A i \in 1 .. e - a + 1 : text[i] = x[a + i - 1]
  <2>1. \A i \in a .. e : x[i] \in Chars
    BY ElementOfSeq
  <2> QED
    BY <2>1, SubSeqProperties
<1>2. t = [type |-> type, text |-> text, first |-> a, last |-> e]
  <2>1. a + Len(text) - 1 = e
    BY <1>1
  <2> QED
    BY <2>1 DEF Tok
<1>3. TokensOf(type, text, a) = << t >>
  BY DEF TokensOf
<1>4. text[Len(text)] = x[e]
  <2>1. Len(text) \in 1 .. e - a + 1 /\ a + Len(text) - 1 = e
    BY <1>1
  <2> QED
    BY <1>1, <2>1
<1> HIDE DEF t
<1>5. Fits(t)
  BY <1>2 DEF Fits
<1>6. ASSUME type \notin {"UNKNOWN", "COMMENT"} PROVE Ends(x, t)
  <2> SUFFICES ASSUME NEW n \in e + 1 .. Len(x), IsToken(SubSeq(x, a, n)) PROVE LacksIn(x, t)
    BY <1>2 DEF Ends
  <2>1. SubSeq(x, a, n) \in Seq(Chars) /\ Extends(SubSeq(x, a, n), text, x[e + 1])
    BY LongerPiece
  <2>2. e # Len(x)
    OBVIOUS
  <2>3. type \in {"ANDSY", "ARRAYSY", "DOWNTOSY"} /\ Upper(x[e + 1]) = Upper(text[Len(text)])
    BY <1>6, <2>1, <2>2
  <2> QED
    BY <1>2, <1>4, <2>3 DEF LacksIn
<1> QED
  BY <1>2, <1>3, <1>5, <1>6, OneLongest

(* A token of the automaton, before a character it has no arrow for.       *)
LEMMA StateLongest ==
  ASSUME NEW x \in Seq(Chars), NEW a \in 1 .. Len(x), NEW e \in a .. Len(x),
         NEW text, text = SubSeq(x, a, e), NEW st, Form(st, text), TokenFor(st) # "none",
         \/ e = Len(x)
         \/ /\ NextState(st, x[e + 1]) = Null
            /\ ~ (TokenFor(st) = "IDENT" /\ x[e + 1] \in Alphanumeric)
  PROVE  AllLongest(x, TokensOf(TokenFor(st), text, a))
<1> DEFINE type == TokenFor(st)
<1>0. text \in Seq(Chars)
  <2>1. \A i \in a .. e : x[i] \in Chars
    BY ElementOfSeq
  <2> QED
    BY <2>1, SubSeqProperties
<1>1. CASE type = "RANGE"
  <2>1. st.at = "range" /\ IsRange(text)
    BY <1>1, RangeState DEF Form
  <2>2. e < Len(x) => x[e + 1] \notin Digits
    BY <2>1, Blocking DEF Departure
  <2>3. AllLongest(x, RangeTokens(text, a))
    BY <2>1, <2>2, RangeLongest
  <2> QED
    BY <1>1, <2>3 DEF TokensOf
<1>2. CASE type = "UNKNOWN"
  <2> HIDE DEF type
  <2>1. AllLongest(x, TokensOf(type, text, a))
    BY <1>2, TextLongest
  <2> QED
    BY <2>1 DEF type
<1>3. CASE type \notin {"RANGE", "UNKNOWN"}
  <2>1. HasShape(type, text)
    BY <1>0, <1>3, AcceptedShape
  <2>2. type \in {"CHARCON", "STRING"} => IsClosed(text)
    BY AcceptedClosed
  <2>3. ASSUME e # Len(x)
        PROVE  \A y \in Seq(Chars) : Extends(y, text, x[e + 1]) =>
                 \/ ~ IsToken(y)
                 \/ /\ type \in {"ANDSY", "ARRAYSY", "DOWNTOSY"}
                    /\ Upper(x[e + 1]) = Upper(text[Len(text)])
    BY <1>0, <1>3, <2>3, AcceptedLongest
  <2> HIDE DEF type
  <2>4. AllLongest(x, TokensOf(type, text, a))
    BY <1>3, <2>1, <2>2, <2>3, TextLongest
  <2> QED
    BY <2>4 DEF type
<1> QED
  BY <1>1, <1>2, <1>3

-----------------------------------------------------------------------------
(* The invariant of the tokens.                                            *)

LongestInv == AllLongest(input, result)

LEMMA ResultTokens == IInv => result \in Seq(Token)
BY DEF IInv, Progress, Settled

(* TokensOf yields tokens.                                                 *)
LEMMA EmittedTokens ==
  ASSUME NEW x \in Seq(Chars), NEW a \in 1 .. Len(x), NEW e \in a .. Len(x),
         NEW type \in TokenTypes, NEW text, text = SubSeq(x, a, e),
         type = "RANGE" => HasDots(text)
  PROVE  TokensOf(type, text, a) \in Seq(Token)
<1>1. CASE type = "RANGE"
  BY <1>1, RangeTiles DEF TokensOf, Tiles
<1>2. CASE type # "RANGE"
  BY <1>2, OneTile DEF TokensOf, Tiles
<1> QED
  BY <1>1, <1>2

LEMMA EmitLongest ==
  ASSUME IInv, LongestInv, input' = input, NEW a \in 1 .. Len(input), NEW e \in a .. Len(input),
         NEW type \in TokenTypes, NEW text, text = SubSeq(input, a, e),
         type = "RANGE" => HasDots(text), result' = result \o TokensOf(type, text, a),
         AllLongest(input, TokensOf(type, text, a))
  PROVE  LongestInv'
<1>1. result \in Seq(Token) /\ input \in Seq(Chars)
  BY ResultTokens, InputSeq
<1>2. TokensOf(type, text, a) \in Seq(Token)
  BY <1>1, EmittedTokens
<1>3. AllLongest(input, result \o TokensOf(type, text, a))
  BY <1>1, <1>2, LongestTogether DEF LongestInv
<1> QED
  BY <1>3 DEF LongestInv

LEMMA EmitUnknownLongest ==
  ASSUME IInv, LongestInv, input' = input, NEW a \in 1 .. Len(input), NEW e \in a .. Len(input),
         NEW type \in {"UNKNOWN", "COMMENT"}, NEW text, text = SubSeq(input, a, e),
         result' = result \o TokensOf(type, text, a)
  PROVE  LongestInv'
<1>1. type \in TokenTypes /\ type # "RANGE" /\ type \notin {"CHARCON", "STRING"}
  BY RangeTypes
<1>2. AllLongest(input, TokensOf(type, text, a))
  BY <1>1, InputSeq, TextLongest
<1> QED
  BY <1>1, <1>2, EmitLongest

(* The lexeme is emitted as invalid.                                       *)
LEMMA UnknownLongest ==
  ASSUME IInv, LongestInv, Restart, lexeme # << >>, NEW before, EmitUnknown(lexeme, start, before)
  PROVE  LongestInv'
<1>1. /\ start \in 1 .. Len(input) /\ Taken \in start .. Len(input)
      /\ lexeme = SubSeq(input, start, Taken)
  BY LexemeText
<1>2. input' = input /\ result' = result \o TokensOf("UNKNOWN", lexeme, start)
  BY DEF Restart, EmitUnknown
<1> QED
  BY <1>1, <1>2, EmitUnknownLongest

LEMMA AcceptLongest == IInv /\ FormInv /\ LongestInv /\ Accept => LongestInv'
<1> SUFFICES ASSUME IInv, FormInv, LongestInv, Accept PROVE LongestInv'
  OBVIOUS
<1> DEFINE type == TokenFor(state)
<1>1. /\ Available /\ mode = "scan" /\ Restart /\ Emit(type, lexeme, start)
      /\ type # "none" /\ NextState(state, Current) = Null
      /\ ~ (type = "IDENT" /\ Current \in Alphanumeric)
  BY DEF Accept, Blocked, Steps, IsAccepting
<1>2. lexeme # << >> /\ Form(state, lexeme)
  BY <1>1, StartToken, ScanMode DEF FormInv
<1>3. /\ start \in 1 .. Len(input) /\ Taken \in start .. Len(input) /\ input \in Seq(Chars)
      /\ lexeme = SubSeq(input, start, Taken)
  BY <1>2, LexemeText, InputSeq
<1>4. Current = input[Taken + 1]
  BY <1>1, Hand
<1>5. AllLongest(input, TokensOf(type, lexeme, start))
  BY <1>1, <1>2, <1>3, <1>4, StateLongest
<1>6. type \in TokenTypes /\ (type = "RANGE" => HasDots(lexeme))
  BY <1>1, TokenForType, RangeState DEF IInv, DotsRead
<1>7. input' = input /\ result' = result \o TokensOf(type, lexeme, start)
  BY <1>1 DEF Restart, Emit
<1> HIDE DEF type
<1> QED
  BY <1>3, <1>5, <1>6, <1>7, EmitLongest

LEMMA FinishLongest == IInv /\ FormInv /\ LongestInv /\ Finish => LongestInv'
<1> SUFFICES ASSUME IInv, FormInv, LongestInv, Finish PROVE LongestInv'
  OBVIOUS
<1>1. AtEnd /\ mode = "scan" /\ Restart /\ input' = input
  BY DEF Finish, Restart
<1>2. CASE lexeme = << >>
  BY <1>1, <1>2 DEF Finish, LongestInv
<1>3. CASE lexeme # << >> /\ IsFinal(state)
  <2> DEFINE type == TokenFor(state)
  <2>1. Emit(type, lexeme, start) /\ type # "none" /\ Form(state, lexeme)
    BY <1>1, <1>3 DEF Finish, IsFinal, FormInv
  <2>2. /\ start \in 1 .. Len(input) /\ Taken \in start .. Len(input) /\ input \in Seq(Chars)
        /\ lexeme = SubSeq(input, start, Taken) /\ Taken = Len(input)
    BY <1>1, <1>3, LexemeText, InputSeq, HandAtEnd
  <2>3. AllLongest(input, TokensOf(type, lexeme, start))
    BY <2>1, <2>2, StateLongest
  <2>4. type \in TokenTypes /\ (type = "RANGE" => HasDots(lexeme))
    BY <2>1, TokenForType, RangeState DEF IInv, DotsRead
  <2>5. result' = result \o TokensOf(type, lexeme, start)
    BY <2>1 DEF Emit
  <2> HIDE DEF type
  <2> QED
    BY <1>1, <2>2, <2>3, <2>4, <2>5, EmitLongest
<1>4. CASE lexeme # << >> /\ ~ IsFinal(state)
  BY <1>1, <1>4, UnknownLongest DEF Finish
<1> QED
  BY <1>2, <1>3, <1>4

LEMMA EndIdentifierLongest == IInv /\ FormInv /\ LongestInv /\ EndIdentifier => LongestInv'
<1> SUFFICES ASSUME IInv, FormInv, LongestInv, EndIdentifier PROVE LongestInv'
  OBVIOUS
<1>1. /\ Emit("IDENT", lexeme, start) /\ Restart /\ mode = "identifier"
      /\ AtEnd \/ (~ AtEnd /\ Current \notin Alphanumeric)
  BY DEF EndIdentifier
<1>2. lexeme # << >> /\ IsWord(lexeme) /\ LeavesKeywords(lexeme)
  BY <1>1, LoopMode DEF FormInv
<1>3. /\ start \in 1 .. Len(input) /\ Taken \in start .. Len(input) /\ input \in Seq(Chars)
      /\ lexeme = SubSeq(input, start, Taken) /\ lexeme \in Seq(Chars)
  BY <1>2, LexemeText, InputSeq
<1>4. Taken = Len(input) \/ input[Taken + 1] \notin Alphanumeric
  BY <1>1, HandAtEnd, NotAtEnd, Hand
<1>5. HasShape("IDENT", lexeme)
  BY <1>2, <1>3, NoKeyword, Shapes
<1>6. Taken # Len(input) =>
        \A y \in Seq(Chars) : Extends(y, lexeme, input[Taken + 1]) => ~ IsToken(y)
  BY <1>2, <1>3, <1>4, LongerWord
<1>7. AllLongest(input, TokensOf("IDENT", lexeme, start))
  BY <1>3, <1>5, <1>6, TextLongest
<1>8. input' = input /\ result' = result \o TokensOf("IDENT", lexeme, start)
  BY <1>1 DEF Restart, Emit
<1> QED
  BY <1>3, <1>7, <1>8, RangeTypes, EmitLongest

LEMMA LongestStep == IInv /\ FormInv /\ LongestInv /\ [Next]_vars => LongestInv'
<1> SUFFICES ASSUME IInv, FormInv, LongestInv, [Next]_vars PROVE LongestInv'
  OBVIOUS
<1>1. ASSUME input' = input, result' = result PROVE LongestInv'
  BY <1>1 DEF LongestInv
<1>2. CASE \/ SkipBlank \/ OpenBrace \/ Extend \/ LeaveAutomaton \/ Reject
           \/ ReadIdentifier \/ ReadUnknown \/ Done \/ UNCHANGED vars
  <2>1. input' = input /\ result' = result
    BY <1>2 DEF SkipBlank, OpenBrace, Extend, LeaveAutomaton, Reject, ReadIdentifier,
       ReadUnknown, Done, vars
  <2> QED
    BY <1>1, <2>1
<1>3. CASE RejectChar
  <2>1. /\ Available /\ input' = input
        /\ result' = result \o TokensOf("UNKNOWN", << Current >>, Place)
    BY <1>3 DEF RejectChar, Blocked, Steps, Restart, EmitUnknown
  <2>2. /\ Place \in 1 .. Len(input) /\ Place \in Place .. Len(input)
        /\ << Current >> = SubSeq(input, Place, Place)
    <3>1. Place \in 1 .. Len(input) /\ Current = input[Place] /\ input \in Seq(Chars)
      BY <2>1, Hand, InputSeq
    <3>2. << input[Place] >> = SubSeq(input, Place, Place)
      BY <3>1, OneCharacter
    <3>3. Place \in Place .. Len(input)
      BY <3>1
    <3> QED
      BY <3>1, <3>2, <3>3
  <2> QED
    BY <2>1, <2>2, EmitUnknownLongest
<1>4. CASE RejectAtBlank \/ RejectAtBoundary
  <2>1. PICK before : EmitUnknown(lexeme, start, before) /\ Restart /\ lexeme # << >>
    BY <1>4 DEF RejectAtBlank, RejectAtBoundary
  <2> QED
    BY <2>1, UnknownLongest
<1>5. CASE ReadComment
  <2>1. CASE CommentEnds(lexeme, Current)
    <3>1. /\ Available /\ mode = "comment" /\ Restart
          /\ Emit("COMMENT", Append(lexeme, Current), start)
      BY <1>5, <2>1 DEF ReadComment
    <3>2. lexeme # << >>
      BY <3>1, LoopMode
    <3>3. /\ start \in 1 .. Len(input) /\ Place \in start .. Len(input)
          /\ Append(lexeme, Current) = SubSeq(input, start, Place)
      BY <3>1, <3>2, LexemeText, LongerText
    <3>4. input' = input /\ result' = result \o TokensOf("COMMENT", Append(lexeme, Current), start)
      BY <3>1 DEF Restart, Emit
    <3> QED
      BY <3>3, <3>4, EmitUnknownLongest
  <2>2. CASE ~ CommentEnds(lexeme, Current)
    <3>1. input' = input /\ result' = result
      BY <1>5, <2>2 DEF ReadComment
    <3> QED
      BY <1>1, <3>1
  <2> QED
    BY <2>1, <2>2
<1>6. CASE UnterminatedComment \/ EndUnknown
  <2>1. /\ \E before : EmitUnknown(lexeme, start, before)
        /\ Restart /\ mode \in {"comment", "unknown"}
    BY <1>6 DEF UnterminatedComment, EndUnknown
  <2>2. lexeme # << >>
    BY <2>1, LoopMode
  <2> QED
    BY <2>1, <2>2, UnknownLongest
<1> QED
  BY <1>2, <1>3, <1>4, <1>5, <1>6, AcceptLongest, FinishLongest, EndIdentifierLongest DEF Next, Step

LEMMA AllTokensLongest == Spec => []LongestInv
<1>1. Init => LongestInv
  BY DEF Init, LongestInv, AllLongest
<1> QED
  BY <1>1, LongestStep, Invariance, Forms, PTL DEF Spec

(* Longest match (the automaton of dfa.cpp, process_next_token and         *)
(* write_range_tokens): every token has the shape of its type, and no      *)
(* longer piece of the text from the same place is a token, but for the    *)
(* upper bound of a range and the letters the table has no arrow for.      *)
THEOREM TokensAreLongest == Spec => []LongestMatch
<1>1. IInv /\ LongestInv => LongestMatch
  <2> SUFFICES ASSUME IInv, LongestInv, NEW i \in 1 .. Len(result),
                      result[i].type \notin {"UNKNOWN", "COMMENT"}
               PROVE  /\ HasShape(result[i].type, result[i].text)
                      /\ \A n \in result[i].last + 1 .. Len(input) :
                           LET longer == SubSeq(input, result[i].first, n) IN
                           \/ ~ IsToken(longer)
                           \/ IsUpperBound(i) /\ IsReal(longer)
                           \/ LacksArrow(result[i])
    BY DEF LongestMatch
  <2>1. HasShape(result[i].type, result[i].text)
    BY DEF LongestInv, AllLongest, Fits
  <2>2. Ends(input, result[i]) \/ (UpperBoundIn(result, i) /\ EndsReal(input, result[i]))
    BY DEF LongestInv, AllLongest, Longest
  <2>3. UpperBoundIn(result, i) => IsUpperBound(i)
    BY DEF UpperBoundIn, IsUpperBound
  <2>4. LacksIn(input, result[i]) => LacksArrow(result[i])
    BY DEF LacksIn, LacksArrow
  <2> QED
    BY <2>1, <2>2, <2>3, <2>4 DEF Ends, EndsReal
<1> QED
  BY <1>1, Invariance, AllTokensLongest, PTL

-----------------------------------------------------------------------------
(* The values of quoted literals.  Both recursive functions go over the    *)
(* prefixes of a text.                                                     *)

Twice(c) == IF c = "'" THEN << "'", "'" >> ELSE << c >>

DoubledRuns(s, g) ==
  g = [n \in 0 .. Len(s) |->
         IF n = 0 THEN << >>
         ELSE g[n - 1] \o IF s[n] = "'" THEN << "'", "'" >> ELSE << s[n] >>]

(* g[n] is the first n characters with their quotes doubled.               *)
DoubledPrefixes(s, g) ==
  /\ g[0] = << >>
  /\ \A n \in 1 .. Len(s) : g[n] = g[n - 1] \o Twice(s[n])
  /\ \A n \in 0 .. Len(s) : g[n] \in Seq(Chars)
  /\ Doubled(s) = g[Len(s)]

LEMMA DoubledDef ==
  ASSUME NEW s \in Seq(Chars), "'" \in Chars
  PROVE  \E g : DoubledPrefixes(s, g)
<1> DEFINE m == Len(s)
           step == [n \in 1 .. m |-> [y \in Seq(Chars) |-> y \o Twice(s[n])]]
           g == CHOOSE f : DoubledRuns(s, f)
<1>1. m \in Nat /\ << >> \in Seq(Chars) /\ \A n \in 1 .. m : s[n] \in Chars
  OBVIOUS
<1>2. ASSUME NEW n \in 1 .. m, NEW y \in Seq(Chars)
      PROVE  y \o Twice(s[n]) \in Seq(Chars) /\ step[n][y] = y \o Twice(s[n])
  <2>1. Twice(s[n]) \in Seq(Chars)
    BY <1>1 DEF Twice
  <2>2. \A z \in Seq(Chars) : y \o z \in Seq(Chars)
    OBVIOUS
  <2> QED
    BY <2>1, <2>2
<1>3. step \in [1 .. m -> [Seq(Chars) -> Seq(Chars)]]
  BY <1>2
<1>4. \E f \in [0 .. m -> Seq(Chars)] : DoubledRuns(s, f)
  <2>0. \A n \in 1 .. m, y \in Seq(Chars) : step[n][y] = y \o Twice(s[n])
    BY <1>2
  <2> HIDE DEF step, m
  <2>1. PICK f \in [0 .. m -> Seq(Chars)] : Unfolds(f, m, << >>, step)
    BY <1>1, <1>3, UnfoldingExists DEF CanUnfold
  <2>2. f = [n \in 0 .. m |-> f[n]]
    BY <2>1
  <2>3. \A n \in 0 .. m : f[n] = IF n = 0 THEN << >> ELSE step[n][f[n - 1]]
    BY <2>1 DEF Unfolds
  <2>4. ASSUME NEW n \in 0 .. m, n # 0 PROVE step[n][f[n - 1]] = f[n - 1] \o Twice(s[n])
    <3>1. n \in 1 .. m /\ f[n - 1] \in Seq(Chars)
      BY <1>1, <2>4
    <3> QED
      BY <2>0, <3>1
  <2>5. \A n \in 0 .. m : f[n] = IF n = 0 THEN << >> ELSE f[n - 1] \o Twice(s[n])
    BY <2>3, <2>4
  <2>6. DoubledRuns(s, f)
    BY <2>2, <2>5 DEF DoubledRuns, Twice, m
  <2> QED
    BY <2>6
<1>5. DoubledRuns(s, g)
  BY <1>4
<1>6. Doubled(s) = g[m]
  BY DEF Doubled, DoubledRuns
<1> HIDE DEF g, step
<1>7. \A n \in 0 .. m : g[n] = IF n = 0 THEN << >> ELSE g[n - 1] \o Twice(s[n])
  BY <1>5 DEF DoubledRuns, Twice
<1> DEFINE T == {n \in 0 .. m : g[n] \in Seq(Chars)}
<1>8. 0 \in T
  <2>1. 0 \in 0 .. m /\ g[0] = << >>
    BY <1>1, <1>7
  <2> QED
    BY <1>1, <2>1
<1>9. ASSUME NEW n \in 0 .. m - 1, n \in T PROVE n + 1 \in T
  <2>1. n + 1 \in 1 .. m /\ n + 1 \in 0 .. m /\ (n + 1) - 1 = n /\ n + 1 # 0 /\ g[n] \in Seq(Chars)
    BY <1>1, <1>9
  <2>2. g[n + 1] = g[n] \o Twice(s[n + 1])
    BY <1>7, <2>1
  <2> QED
    BY <1>2, <2>1, <2>2
<1>10. \A n \in 0 .. m : n \in T
  <2>1. \A n \in 0 .. m - 1 : n \in T => n + 1 \in T
    BY <1>9
  <2> HIDE DEF T, m
  <2> QED
    BY <1>1, <1>8, <2>1, NumbersUpTo
<1>11. g[0] = << >> /\ \A n \in 1 .. m : g[n] = g[n - 1] \o Twice(s[n])
  <2>1. 0 \in 0 .. m
    BY <1>1
  <2>2. \A n \in 1 .. m : n \in 0 .. m /\ n # 0
    BY <1>1
  <2> QED
    BY <1>7, <2>1, <2>2
<1> QED
  BY <1>6, <1>10, <1>11 DEF DoubledPrefixes

LEMMA DoubledEmpty ==
  ASSUME "'" \in Chars
  PROVE  Doubled(<< >>) = << >>
<1>1. << >> \in Seq(Chars) /\ Len(<< >>) = 0
  OBVIOUS
<1>2. PICK g : DoubledPrefixes(<< >>, g)
  BY <1>1, DoubledDef
<1> QED
  BY <1>1, <1>2 DEF DoubledPrefixes

LEMMA DoubledGrows ==
  ASSUME NEW s \in Seq(Chars), NEW c \in Chars, "'" \in Chars
  PROVE  Doubled(Append(s, c)) = Doubled(s) \o Twice(c)
<1> DEFINE x == Append(s, c)
           m == Len(s)
<1>1. /\ x \in Seq(Chars) /\ m \in Nat /\ Len(x) = m + 1 /\ x[m + 1] = c
      /\ \A i \in 1 .. m : x[i] = s[i]
  BY Appended
<1>2. PICK g : DoubledPrefixes(s, g)
  BY DoubledDef
<1> HIDE DEF x
<1>3. PICK h : DoubledPrefixes(x, h)
  BY <1>1, DoubledDef
<1>4. /\ g[0] = << >> /\ h[0] = << >> /\ Doubled(s) = g[m] /\ Doubled(x) = h[m + 1]
      /\ \A n \in 1 .. m : g[n] = g[n - 1] \o Twice(s[n])
      /\ \A n \in 1 .. m + 1 : h[n] = h[n - 1] \o Twice(x[n])
  BY <1>1, <1>2, <1>3 DEF DoubledPrefixes
<1> HIDE DEF m
<1> DEFINE T == {n \in 0 .. m : h[n] = g[n]}
<1>5. 0 \in T
  BY <1>1, <1>4
<1>6. ASSUME NEW n \in 0 .. m - 1, n \in T PROVE n + 1 \in T
  <2>1. n + 1 \in 1 .. m /\ n + 1 \in 1 .. m + 1 /\ (n + 1) - 1 = n /\ n + 1 \in 0 .. m
    BY <1>1
  <2>2. h[n + 1] = h[n] \o Twice(x[n + 1]) /\ g[n + 1] = g[n] \o Twice(s[n + 1])
    BY <1>4, <2>1
  <2>3. x[n + 1] = s[n + 1] /\ h[n] = g[n]
    BY <1>1, <1>6, <2>1
  <2> QED
    BY <2>1, <2>2, <2>3
<1>7. \A n \in 0 .. m : n \in T
  <2>1. \A n \in 0 .. m - 1 : n \in T => n + 1 \in T
    BY <1>6
  <2> HIDE DEF T
  <2> QED
    BY <1>1, <1>5, <2>1, NumbersUpTo
<1>8. h[m] = g[m]
  <2>1. m \in 0 .. m
    BY <1>1
  <2> QED
    BY <1>7, <2>1
<1>9. h[m + 1] = h[m] \o Twice(c)
  <2>1. m + 1 \in 1 .. m + 1 /\ (m + 1) - 1 = m
    BY <1>1
  <2> QED
    BY <1>1, <1>4, <2>1
<1> QED
  BY <1>4, <1>8, <1>9 DEF x

(* A step of the decoding: b is what was decoded before the character c.   *)
DecodeStep(b, c) ==
  IF c = "'" /\ b.open = 1 THEN [out |-> b.out, open |-> 0]
  ELSE [out |-> Append(b.out, c), open |-> IF c = "'" THEN 1 ELSE 0]

Decodings == [out : Seq(Chars), open : {0, 1}]

DecodeRuns(s, g) ==
  g = [n \in 0 .. Len(s) |->
        IF n = 0 THEN [out |-> << >>, open |-> 0]
        ELSE IF s[n] = "'" /\ g[n - 1].open = 1
        THEN [out |-> g[n - 1].out, open |-> 0]
        ELSE [out |-> Append(g[n - 1].out, s[n]),
              open |-> IF s[n] = "'" THEN 1 ELSE 0]]

DecodePrefixes(text, s, g) ==
  /\ g[0] = [out |-> << >>, open |-> 0]
  /\ \A n \in 1 .. Len(s) : g[n] = DecodeStep(g[n - 1], s[n])
  /\ Decoded(text) = << "'" >> \o g[Len(s)].out \o << "'" >>

LEMMA DecodeType ==
  ASSUME NEW b \in Decodings, NEW c \in Chars
  PROVE  DecodeStep(b, c) \in Decodings
<1>1. b.out \in Seq(Chars) /\ Append(b.out, c) \in Seq(Chars)
  BY DEF Decodings
<1> QED
  BY <1>1 DEF DecodeStep, Decodings

LEMMA DecodedDef ==
  ASSUME NEW text, NEW s \in Seq(Chars), s = SubSeq(text, 2, Len(text) - 1)
  PROVE  \E g : DecodePrefixes(text, s, g)
<1> DEFINE m == Len(s)
           none == [out |-> << >>, open |-> 0]
           step == [n \in 1 .. m |-> [b \in Decodings |-> DecodeStep(b, s[n])]]
           g == CHOOSE f : DecodeRuns(s, f)
<1>1. m \in Nat /\ none \in Decodings /\ \A n \in 1 .. m : s[n] \in Chars
  BY DEF Decodings
<1>2. \A n \in 1 .. m, b \in Decodings :
        DecodeStep(b, s[n]) \in Decodings /\ step[n][b] = DecodeStep(b, s[n])
  BY <1>1, DecodeType
<1>3. step \in [1 .. m -> [Decodings -> Decodings]]
  BY <1>2
<1>4. \E f \in [0 .. m -> Decodings] : DecodeRuns(s, f)
  <2> HIDE DEF step, m
  <2>1. PICK f \in [0 .. m -> Decodings] : Unfolds(f, m, none, step)
    BY <1>1, <1>3, UnfoldingExists DEF CanUnfold
  <2>2. f = [n \in 0 .. m |-> f[n]]
    BY <2>1
  <2>3. \A n \in 0 .. m : f[n] = IF n = 0 THEN none ELSE step[n][f[n - 1]]
    BY <2>1 DEF Unfolds
  <2>4. ASSUME NEW n \in 0 .. m, n # 0 PROVE step[n][f[n - 1]] = DecodeStep(f[n - 1], s[n])
    <3>1. n \in 1 .. m /\ f[n - 1] \in Decodings
      BY <1>1, <2>4
    <3> QED
      BY <1>2, <3>1
  <2>5. \A n \in 0 .. m : f[n] = IF n = 0 THEN none ELSE DecodeStep(f[n - 1], s[n])
    BY <2>3, <2>4
  <2>6. DecodeRuns(s, f)
    BY <2>2, <2>5 DEF DecodeRuns, DecodeStep, m
  <2> QED
    BY <2>6
<1>5. DecodeRuns(s, g)
  BY <1>4
<1>6. Decoded(text) = << "'" >> \o g[m].out \o << "'" >>
  BY DEF Decoded, DecodeRuns
<1> HIDE DEF g, step
<1>7. \A n \in 0 .. m : g[n] = IF n = 0 THEN none ELSE DecodeStep(g[n - 1], s[n])
  BY <1>5 DEF DecodeRuns, DecodeStep
<1>8. g[0] = none /\ \A n \in 1 .. m : g[n] = DecodeStep(g[n - 1], s[n])
  <2>1. 0 \in 0 .. m
    BY <1>1
  <2>2. \A n \in 1 .. m : n \in 0 .. m /\ n # 0
    BY <1>1
  <2> HIDE DEF none
  <2> QED
    BY <1>7, <2>1, <2>2
<1> QED
  BY <1>6, <1>8 DEF DecodePrefixes

(* What is decoded of the first n characters of the content s of a literal *)
(* whose waiting quotes are at the places W.                               *)
DecodedSoFar(W, s, b, n) ==
  /\ b \in Decodings
  /\ b.open = 1 <=> n + 1 \in W
  /\ Doubled(b.out) = IF b.open = 1 THEN Append(SubSeq(s, 1, n), "'") ELSE SubSeq(s, 1, n)

LEMMA DecodeOne ==
  ASSUME "'" \in Chars, NEW s \in Seq(Chars), NEW W, NEW n \in 0 .. Len(s) - 1, NEW b,
         DecodedSoFar(W, s, b, n), NEW c, c = s[n + 1],
         n + 2 \in W <=> c = "'" /\ n + 1 \notin W,
         n + 1 \in W => c = "'"
  PROVE  DecodedSoFar(W, s, DecodeStep(b, c), n + 1)
<1> DEFINE p == SubSeq(s, 1, n)
           q == SubSeq(s, 1, n + 1)
           v == DecodeStep(b, c)
<1>1. /\ n \in Nat /\ Len(s) \in Nat /\ n + 1 \in 1 .. Len(s) /\ (n + 1) + 1 = n + 2
      /\ c \in Chars
  <2>1. n + 1 \in 1 .. Len(s)
    OBVIOUS
  <2> QED
    BY <2>1, ElementOfSeq
<1>2. p \in Seq(Chars)
  <2>1. \A i \in 1 .. n : s[i] \in Chars
    BY <1>1, ElementOfSeq
  <2> QED
    BY <1>1, <2>1, SubSeqProperties
<1>3. q = p \o << c >>
  <2>1. 1 \in 1 .. Len(s) /\ n + 1 \in 1 .. Len(s) /\ (n + 1) - 1 = n
    BY <1>1
  <2> QED
    BY <2>1, SubSeqRecursiveSecond
<1>4. /\ b \in Decodings /\ b.out \in Seq(Chars) /\ b.open \in {0, 1}
      /\ b.open = 1 <=> n + 1 \in W
      /\ Doubled(b.out) = IF b.open = 1 THEN Append(p, "'") ELSE p
  BY DEF DecodedSoFar, Decodings
<1> HIDE DEF p, q
<1>5. v \in Decodings
  BY <1>1, <1>4, DecodeType
<1>6. CASE c = "'" /\ b.open = 1
  <2>1. v = [out |-> b.out, open |-> 0]
    BY <1>6 DEF DecodeStep
  <2>2. n + 2 \notin W
    BY <1>4, <1>6
  <2>3. Append(p, "'") = p \o << "'" >>
    BY <1>2
  <2>a. v.out = b.out /\ v.open = 0
    BY <2>1
  <2> HIDE DEF v
  <2>b. Doubled(b.out) = Append(p, "'")
    BY <1>4, <1>6
  <2>4. Doubled(v.out) = q /\ v.open = 0
    BY <1>3, <1>6, <2>a, <2>b, <2>3
  <2>5. DecodedSoFar(W, s, v, n + 1)
    BY <1>1, <1>5, <2>2, <2>4 DEF DecodedSoFar, q
  <2> QED
    BY <2>5 DEF v
<1>7. CASE ~ (c = "'" /\ b.open = 1)
  <2>1. b.open = 0
    BY <1>4, <1>7
  <2>2. v = [out |-> Append(b.out, c), open |-> IF c = "'" THEN 1 ELSE 0]
    BY <1>7 DEF DecodeStep
  <2>3. v.open = 1 <=> n + 2 \in W
    BY <1>4, <2>1, <2>2
  <2>4. Doubled(v.out) = p \o Twice(c)
    <3>1. v.out = Append(b.out, c) /\ Doubled(b.out) = p
      BY <1>4, <2>1, <2>2
    <3>2. Doubled(Append(b.out, c)) = Doubled(b.out) \o Twice(c)
      BY <1>1, <1>4, DoubledGrows
    <3> QED
      BY <3>1, <3>2
  <2>5. Doubled(v.out) = IF v.open = 1 THEN Append(q, "'") ELSE q
    <3>1. CASE c = "'"
      <4>1. Append(p \o << "'" >>, "'") = p \o << "'", "'" >>
        BY <1>2
      <4> QED
        BY <1>3, <2>2, <2>4, <3>1, <4>1 DEF Twice
    <3>2. CASE c # "'"
      BY <1>3, <2>2, <2>4, <3>2 DEF Twice
    <3> QED
      BY <3>1, <3>2
  <2> HIDE DEF v
  <2>6. DecodedSoFar(W, s, v, n + 1)
    BY <1>1, <1>5, <2>3, <2>5 DEF DecodedSoFar, q
  <2> QED
    BY <2>6 DEF v
<1> QED
  BY <1>6, <1>7

(* The value of a closed literal, with its quotes doubled again.           *)
LEMMA ClosedRecovered ==
  ASSUME NEW text \in Seq(Chars), IsClosed(text)
  PROVE  /\ Len(text) >= 2
         /\ text = << "'" >> \o Doubled(SubSeq(Decoded(text), 2, Len(Decoded(text)) - 1)) \o << "'" >>
<1> DEFINE l == Len(text)
           s == SubSeq(text, 2, l - 1)
           m == Len(s)
<1>1. PICK W \in SUBSET (2 .. l) : QuotesOf(text, W) /\ l \in W
  BY DEF IsClosed
<1>2. /\ l \in Nat /\ l >= 2 /\ text[1] = "'" /\ text[l] = "'" /\ l - 1 \notin W
      /\ \A n \in 2 .. l : /\ n \in W <=> text[n] = "'" /\ n - 1 \notin W
                           /\ n - 1 \in W => text[n] = "'"
  BY <1>1 DEF QuotesOf, Pairs
<1>3. "'" \in Chars
  BY <1>2, ElementOfSeq
<1>4. /\ s \in Seq(Chars) /\ m = l - 2 /\ m \in Nat
      /\ \A i \in 1 .. l - 2 : s[i] = text[i + 1]
  <2>1. \A i \in 2 .. l - 1 : text[i] \in Chars
    BY <1>2, ElementOfSeq
  <2> DEFINE e == l - 1
  <2>2. 2 \in Int /\ e \in Int /\ 2 <= e + 1 /\ \A i \in 2 .. e : text[i] \in Chars
    BY <1>2, <2>1
  <2> HIDE DEF e
  <2>a. /\ SubSeq(text, 2, e) \in Seq(Chars) /\ Len(SubSeq(text, 2, e)) = e - 2 + 1
        /\ \A i \in 1 .. e - 2 + 1 : SubSeq(text, 2, e)[i] = text[2 + i - 1]
    BY <2>2, SubSeqProperties
  <2>3. /\ s \in Seq(Chars) /\ Len(s) = (l - 1) - 2 + 1
        /\ \A i \in 1 .. (l - 1) - 2 + 1 : s[i] = text[2 + i - 1]
    BY <2>a DEF e
  <2>4. (l - 1) - 2 + 1 = l - 2 /\ \A i \in 1 .. l - 2 : 2 + i - 1 = i + 1
    BY <1>2
  <2> QED
    BY <1>2, <2>3, <2>4
<1>5. PICK g : DecodePrefixes(text, s, g)
  BY <1>4, DecodedDef
<1>d. l = Len(text)
  OBVIOUS
<1>6. /\ g[0] = [out |-> << >>, open |-> 0]
      /\ \A n \in 1 .. m : g[n] = DecodeStep(g[n - 1], s[n])
      /\ Decoded(text) = << "'" >> \o g[m].out \o << "'" >>
  BY <1>5 DEF DecodePrefixes
<1>7. text = << "'" >> \o s \o << "'" >>
  <2>1. << "'" >> \o s \o << "'" >> \in Seq(Chars)
    BY <1>3, <1>4
  <2>2. /\ Len(<< "'" >> \o s \o << "'" >>) = m + 2
        /\ (<< "'" >> \o s \o << "'" >>)[1] = "'" /\ (<< "'" >> \o s \o << "'" >>)[m + 2] = "'"
        /\ \A i \in 2 .. m + 1 : (<< "'" >> \o s \o << "'" >>)[i] = s[i - 1]
    <3> HIDE DEF s
    <3> QED
      BY <1>3, <1>4
  <2> DEFINE y == << "'" >> \o s \o << "'" >>
  <2> HIDE DEF y, s, m, l
  <2>3. \A i \in 1 .. l : text[i] = y[i]
    <3> SUFFICES ASSUME NEW i \in 1 .. l PROVE text[i] = y[i]
      OBVIOUS
    <3>1. CASE i = 1 \/ i = l
      BY <1>2, <1>4, <2>2, <3>1 DEF y
    <3>2. CASE i \in 2 .. l - 1
      <4>1. i \in 2 .. m + 1 /\ i - 1 \in 1 .. l - 2 /\ (i - 1) + 1 = i
        BY <1>2, <1>4, <3>2
      <4> QED
        BY <1>4, <2>2, <4>1 DEF y
    <3> QED
      BY <1>2, <3>1, <3>2
  <2>4. Len(y) = l
    BY <1>2, <1>4, <2>2 DEF y
  <2>5. text = y
    BY <1>d, <2>1, <2>3, <2>4, SeqEqual DEF y
  <2> QED
    BY <2>5 DEF y
<1> HIDE DEF s, m, l
<1> DEFINE T == {n \in 0 .. m : DecodedSoFar(W, s, g[n], n)}
<1>8. 0 \in T
  <2>1. SubSeq(s, 1, 0) = << >>
    BY <1>4
  <2>2. 1 \notin W
    BY <1>1, <1>2
  <2>3. << >> \in Seq(Chars)
    OBVIOUS
  <2>4. g[0].out = << >> /\ g[0].open = 0 /\ g[0] \in Decodings
    BY <1>6, <2>3 DEF Decodings
  <2>a. Doubled(<< >>) = << >>
    BY <1>3, DoubledEmpty
  <2> DEFINE b == g[0]
  <2>b. b \in Decodings /\ b.open = 0 /\ Doubled(b.out) = << >>
    BY <2>a, <2>4
  <2> HIDE DEF b
  <2>c. DecodedSoFar(W, s, b, 0)
    BY <2>1, <2>2, <2>b DEF DecodedSoFar
  <2>5. DecodedSoFar(W, s, g[0], 0)
    BY <2>c DEF b
  <2>6. 0 \in 0 .. m
    BY <1>4
  <2> QED
    BY <2>5, <2>6
<1>9. ASSUME NEW n \in 0 .. m - 1, n \in T PROVE n + 1 \in T
  <2>1. /\ n + 1 \in 1 .. m /\ n + 1 \in 0 .. m /\ (n + 1) - 1 = n
        /\ n + 2 \in 2 .. l /\ (n + 2) - 1 = n + 1 /\ n + 1 \in 1 .. l - 2 /\ (n + 1) + 1 = n + 2
    BY <1>2, <1>4
  <2>2. s[n + 1] = text[n + 2]
    BY <1>4, <2>1
  <2>3. /\ n + 2 \in W <=> s[n + 1] = "'" /\ n + 1 \notin W
        /\ n + 1 \in W => s[n + 1] = "'"
    BY <1>2, <2>1, <2>2
  <2>4. DecodedSoFar(W, s, g[n], n) /\ n \in 0 .. Len(s) - 1
    BY <1>9 DEF m
  <2>5. DecodedSoFar(W, s, DecodeStep(g[n], s[n + 1]), n + 1)
    BY <1>3, <1>4, <2>3, <2>4, DecodeOne
  <2>6. g[n + 1] = DecodeStep(g[n], s[n + 1])
    BY <1>6, <2>1
  <2> QED
    BY <2>1, <2>5, <2>6
<1>10. \A n \in 0 .. m : n \in T
  <2>1. \A n \in 0 .. m - 1 : n \in T => n + 1 \in T
    BY <1>9
  <2> HIDE DEF T
  <2> QED
    BY <1>4, <1>8, <2>1, NumbersUpTo
<1>11. g[m].out \in Seq(Chars) /\ Doubled(g[m].out) = s
  <2>1. DecodedSoFar(W, s, g[m], m)
    <3>1. m \in 0 .. m
      BY <1>4
    <3> QED
      BY <1>10, <3>1
  <2>2. m + 1 = l - 1
    BY <1>2, <1>4
  <2>3. g[m].open # 1
    BY <1>2, <2>1, <2>2 DEF DecodedSoFar
  <2>4. SubSeq(s, 1, m) = s
    BY <1>4, SubSeqFull DEF m
  <2> QED
    BY <2>1, <2>3, <2>4 DEF DecodedSoFar, Decodings
<1> DEFINE o == g[m].out
           D == Decoded(text)
<1>12. SubSeq(D, 2, Len(D) - 1) = o
  <2>1. D = << "'" >> \o o \o << "'" >> /\ o \in Seq(Chars)
    BY <1>6, <1>11
  <2> HIDE DEF o, D
  <2>2. /\ D \in Seq(Chars) /\ Len(D) = Len(o) + 2 /\ Len(o) \in Nat
        /\ \A i \in 1 .. Len(o) : D[i + 1] = o[i]
    BY <1>3, <2>1
  <2> DEFINE k == Len(o)
             y == SubSeq(D, 2, k + 1)
  <2>3. k = Len(o)
    OBVIOUS
  <2> HIDE DEF k
  <2>4. \A i \in 2 .. k + 1 : D[i] \in Chars
    <3>1. \A i \in 2 .. k + 1 : i \in 1 .. Len(D)
      BY <2>2, <2>3
    <3> QED
      BY <2>2, <3>1, ElementOfSeq
  <2>5. y \in Seq(Chars) /\ Len(y) = k /\ \A i \in 1 .. k : y[i] = D[2 + i - 1]
    <3>1. 2 \in Int /\ k + 1 \in Int /\ 2 <= (k + 1) + 1 /\ (k + 1) - 2 + 1 = k
      BY <2>2, <2>3
    <3> QED
      BY <2>4, <3>1, SubSeqProperties
  <2> HIDE DEF y
  <2>6. \A i \in 1 .. k : y[i] = o[i]
    <3> SUFFICES ASSUME NEW i \in 1 .. k PROVE y[i] = o[i]
      OBVIOUS
    <3>1. 2 + i - 1 = i + 1
      OBVIOUS
    <3> QED
      BY <2>2, <2>3, <2>5, <3>1
  <2>7. y = o
    BY <2>1, <2>3, <2>5, <2>6, SeqEqual
  <2>8. Len(D) - 1 = k + 1
    BY <2>2, <2>3
  <2> QED
    BY <2>7, <2>8 DEF y
<1> QED
  BY <1>2, <1>7, <1>11, <1>12 DEF l

(* A quoted literal loses nothing in decodeQuotedValue (process_next_token *)
(* gives it only texts whose quotes are paired): the quotes of its value,  *)
(* doubled, are those of the text.                                         *)
THEOREM QuotesKept == Spec => []QuotesRecovered
<1>1. IInv /\ LongestInv => QuotesRecovered
  <2> SUFFICES ASSUME IInv, LongestInv, NEW i \in 1 .. Len(result),
                      result[i].type \in {"CHARCON", "STRING"}
               PROVE  result[i].text = << "'" >>
                        \o Doubled(SubSeq(Value(result[i]), 2, Len(Value(result[i])) - 1)) \o << "'" >>
    BY DEF QuotesRecovered
  <2> DEFINE t == result[i]
  <2>1. t.text \in Seq(Chars)
    <3>1. t \in Token
      BY ResultTokens, ElementOfSeq
    <3> QED
      BY <3>1 DEF Token
  <2>2. IsClosed(t.text)
    BY DEF LongestInv, AllLongest, Fits
  <2>3. Value(t) = Decoded(t.text)
    BY <2>1, <2>2, ClosedRecovered DEF Value
  <2> QED
    BY <2>1, <2>2, <2>3, ClosedRecovered
<1> QED
  BY <1>1, Invariance, AllTokensLongest, PTL
=============================================================================
