-------------------------------- MODULE Lexer --------------------------------
(***************************************************************************)
(* Lexer::process_next_token of lexer.cpp, which turns the whole input     *)
(* into tokens: the automaton is followed as long as it has an arrow, then *)
(* what was read is accepted or given up, and the character in hand is     *)
(* looked at again.  Comments and the tails of identifiers and of invalid  *)
(* text are read by loops of their own.  One step looks at one character.  *)
(***************************************************************************)
EXTENDS Automaton, SequencesExt

CONSTANT Inputs   \* the texts to be read

ASSUME InputsAssumption == Inputs \subseteq Seq(Chars)

VARIABLES
  input,    \* src
  read,     \* how many characters read_char has delivered
  held,     \* the character to look at again (pending, consume_current), if any
  lexeme,   \* the text of the token under way
  start,    \* where it starts (token_start_line, token_start_col)
  state,    \* the automaton's state
  mode,     \* which loop is running
  result,   \* the tokens, with the place of each in the input
  errors    \* the kinds of errors reported, in order

vars == << input, read, held, lexeme, start, state, mode, result, errors >>

Modes == {"scan", "comment", "identifier", "unknown", "done"}

ErrorKinds == {"invalid_token", "unclosed_quote", "unterminated_comment"}

TokenTypes ==
  {k[2] : k \in Keyword} \cup {o[2] : o \in Operator}
    \cup {Accepted[s] : s \in DOMAIN Accepted} \cup {"COMMENT"}

Token ==
  [type : TokenTypes, text : Seq(Chars), first : Nat, last : Nat]

-----------------------------------------------------------------------------
(* Tokens.                                                                 *)

Tok(type, text, at) ==
  [type |-> type, text |-> text, first |-> at, last |-> at + Len(text) - 1]

(* The two dots of a range.                                                *)
DotsOf(text) ==
  CHOOSE d \in 2 .. Len(text) - 2 : text[d] = "." /\ text[d + 1] = "."

RangeTokens(text, at) ==
  LET d == DotsOf(text) IN
  << Tok("INTCON", SubSeq(text, 1, d - 1), at),
     Tok("PERIOD", << "." >>, at + d - 1),
     Tok("PERIOD", << "." >>, at + d),
     Tok("INTCON", SubSeq(text, d + 2, Len(text)), at + d + 1) >>

(* What an accepted text is emitted as.                                    *)
TokensOf(type, text, at) ==
  IF type = "RANGE" THEN RangeTokens(text, at) ELSE << Tok(type, text, at) >>

(* Mutant: a run of quotes becomes one quote.                              *)
DecodedRuns(text) ==
  LET content == SubSeq(text, 2, Len(text) - 1)
      Put(out, c) == IF c = "'" /\ out # << >> /\ out[Len(out)] = "'" THEN out
                     ELSE Append(out, c)
  IN  << "'" >> \o FoldLeft(Put, << >>, content) \o << "'" >>

(* The value of a quoted literal: of two quotes in a row, the first stays. *)
(* open tells that the second may follow.                                  *)
Decoded(text) ==
  LET content == SubSeq(text, 2, Len(text) - 1)
      decode[n \in 0 .. Len(content)] ==
        IF n = 0 THEN [out |-> << >>, open |-> 0]
        ELSE IF content[n] = "'" /\ decode[n - 1].open = 1
        THEN [out |-> decode[n - 1].out, open |-> 0]
        ELSE [out |-> Append(decode[n - 1].out, content[n]),
              open |-> IF content[n] = "'" THEN 1 ELSE 0]
  IN  << "'" >> \o decode[Len(content)].out \o << "'" >>

Value(t) == IF t.type \in {"CHARCON", "STRING"} /\ Len(t.text) >= 2
            THEN Decoded(t.text) ELSE t.text

-----------------------------------------------------------------------------
(* The character in hand.                                                  *)

Whitespace == {" ", "\t", "\r", "\n"}

Boundary ==
  Whitespace \cup {"+", "-", "*", "/", "<", ">", "=", ":", ".", ",", ";",
                   "(", ")", "[", "]", "{", "}", "'"}

Available == held # << >> \/ read < Len(input)

AtEnd == held = << >> /\ read = Len(input)

Current == IF held = << >> THEN input[read + 1] ELSE held[1]

(* Mutant: a character put back is counted once more when it is looked at  *)
(* again.                                                                  *)
PlaceAhead == read + 1

Place == IF held = << >> THEN read + 1 ELSE read

Consume == read' = Place /\ held' = << >>

(* Mutant: the character that ends a token is lost.                        *)
LookAgainNever == read' = Place /\ held' = << >>

(* Mutant: the last character of the token is put back.                    *)
LookAgainAtLast == read' = Place /\ held' = << lexeme[Len(lexeme)] >>

LookAgain == read' = Place /\ held' = << Current >>

(* write_token: every UNKNOWN is reported.                                 *)
Emit(type, text, at) ==
  /\ result' = result \o TokensOf(type, text, at)
  /\ errors' = IF type = "UNKNOWN" THEN Append(errors, "invalid_token") ELSE errors

(* Mutant: invalid text is emitted without a report.                       *)
EmitUnknownSilently(text, at, before) ==
  /\ result' = result \o TokensOf("UNKNOWN", text, at)
  /\ errors' = errors \o before

EmitUnknown(text, at, before) ==
  /\ result' = result \o TokensOf("UNKNOWN", text, at)
  /\ errors' = errors \o before \o << "invalid_token" >>

UnclosedQuote(text) ==
  IF text[1] = "'" THEN << "unclosed_quote" >> ELSE << >>

Restart == lexeme' = << >> /\ state' = Start /\ UNCHANGED << input, start >>

-----------------------------------------------------------------------------
(* The main loop.                                                          *)

SkipBlank ==
  /\ mode = "scan" /\ Available /\ lexeme = << >> /\ Current \in Whitespace
  /\ Consume
  /\ state' = Start
  /\ UNCHANGED << input, lexeme, start, mode, result, errors >>

(* A brace opens a comment before the automaton sees it.                   *)
OpenBrace ==
  /\ mode = "scan" /\ Available /\ lexeme = << >> /\ Current = "{"
  /\ Consume
  /\ mode' = "comment"
  /\ lexeme' = << "{" >>
  /\ start' = Place
  /\ state' = Start
  /\ UNCHANGED << input, result, errors >>

(* Neither of the two cases above: the automaton takes a step.             *)
Steps == /\ mode = "scan" /\ Available
         /\ lexeme = << >> => Current \notin Whitespace \cup {"{"}

(* There is an arrow.  A parenthesis and a star open a comment.            *)
Extend ==
  LET next == NextState(state, Current) IN
  /\ Steps /\ next # Null
  /\ Consume
  /\ lexeme' = Append(lexeme, Current)
  /\ start' = IF lexeme = << >> THEN Place ELSE start
  /\ IF lexeme' = << "(", "*" >>
     THEN mode' = "comment" /\ state' = Start
     ELSE state' = next /\ UNCHANGED mode
  /\ UNCHANGED << input, result, errors >>

Blocked == Steps /\ NextState(state, Current) = Null

(* A letter the table has no arrow for goes on with an identifier.         *)
LeaveAutomaton ==
  /\ Blocked /\ TokenFor(state) = "IDENT" /\ Current \in Alphanumeric
  /\ Consume
  /\ lexeme' = Append(lexeme, Current)
  /\ state' = Start
  /\ mode' = "identifier"
  /\ UNCHANGED << input, start, result, errors >>

Accept ==
  /\ Blocked /\ IsAccepting(state)
  /\ ~ (TokenFor(state) = "IDENT" /\ Current \in Alphanumeric)
  /\ Emit(TokenFor(state), lexeme, start)
  /\ IF Current \in Whitespace THEN Consume ELSE LookAgain
  /\ Restart /\ UNCHANGED mode

(* A character no token starts with.                                       *)
RejectChar ==
  /\ Blocked /\ ~ IsAccepting(state) /\ lexeme = << >>
  /\ EmitUnknown(<< Current >>, Place, << >>)
  /\ Consume
  /\ Restart /\ UNCHANGED mode

RejectAtBlank ==
  /\ Blocked /\ ~ IsAccepting(state) /\ lexeme # << >> /\ Current \in Whitespace
  /\ EmitUnknown(lexeme, start, UnclosedQuote(lexeme))
  /\ Consume
  /\ Restart /\ UNCHANGED mode

RejectAtBoundary ==
  /\ Blocked /\ ~ IsAccepting(state) /\ lexeme # << >>
  /\ Current \in Boundary \ Whitespace
  /\ EmitUnknown(lexeme, start, << >>)
  /\ LookAgain
  /\ Restart /\ UNCHANGED mode

Reject ==
  /\ Blocked /\ ~ IsAccepting(state) /\ lexeme # << >> /\ Current \notin Boundary
  /\ Consume
  /\ lexeme' = Append(lexeme, Current)
  /\ state' = Start
  /\ mode' = "unknown"
  /\ UNCHANGED << input, start, result, errors >>

(* The end of the input.                                                   *)
Finish ==
  /\ mode = "scan" /\ AtEnd
  /\ IF lexeme = << >> THEN UNCHANGED << result, errors >>
     ELSE IF IsFinal(state) THEN Emit(TokenFor(state), lexeme, start)
     ELSE EmitUnknown(lexeme, start, UnclosedQuote(lexeme))
  /\ mode' = "done"
  /\ Restart /\ UNCHANGED << read, held >>

-----------------------------------------------------------------------------
(* The other loops.                                                        *)

CommentEnds(text, c) == c = "}" \/ (text[Len(text)] = "*" /\ c = ")")

ReadComment ==
  /\ mode = "comment" /\ Available
  /\ Consume
  /\ IF CommentEnds(lexeme, Current)
     THEN /\ Emit("COMMENT", Append(lexeme, Current), start)
          /\ mode' = "scan"
          /\ Restart
     ELSE /\ lexeme' = Append(lexeme, Current)
          /\ UNCHANGED << input, start, state, mode, result, errors >>

(* Mutant: the loop of a comment waits for its end at the end of the       *)
(* input.                                                                  *)
UnterminatedCommentAwaited == mode = "comment" /\ AtEnd /\ UNCHANGED vars

UnterminatedComment ==
  /\ mode = "comment" /\ AtEnd
  /\ EmitUnknown(lexeme, start, << "unterminated_comment" >>)
  /\ mode' = "done"
  /\ Restart /\ UNCHANGED << read, held >>

ReadIdentifier ==
  /\ mode = "identifier" /\ Available /\ Current \in Alphanumeric
  /\ Consume
  /\ lexeme' = Append(lexeme, Current)
  /\ UNCHANGED << input, start, state, mode, result, errors >>

EndIdentifier ==
  /\ mode = "identifier" /\ (IF AtEnd THEN TRUE ELSE Current \notin Alphanumeric)
  /\ Emit("IDENT", lexeme, start)
  /\ IF AtEnd THEN UNCHANGED << read, held >> ELSE LookAgain
  /\ mode' = "scan"
  /\ Restart

ReadUnknown ==
  /\ mode = "unknown" /\ Available /\ Current \notin Boundary
  /\ Consume
  /\ lexeme' = Append(lexeme, Current)
  /\ UNCHANGED << input, start, state, mode, result, errors >>

EndUnknown ==
  /\ mode = "unknown" /\ (IF AtEnd THEN TRUE ELSE Current \in Boundary)
  /\ EmitUnknown(lexeme, start, << >>)
  /\ IF AtEnd THEN UNCHANGED << read, held >>
     ELSE IF Current \in Whitespace THEN Consume
     ELSE LookAgain
  /\ mode' = "scan"
  /\ Restart

Done == mode = "done" /\ UNCHANGED vars

-----------------------------------------------------------------------------
Init ==
  /\ input \in Inputs
  /\ read = 0 /\ held = << >>
  /\ lexeme = << >> /\ start = 1 /\ state = Start
  /\ mode = "scan"
  /\ result = << >> /\ errors = << >>

Step ==
  \/ SkipBlank \/ OpenBrace \/ Extend \/ LeaveAutomaton \/ Accept
  \/ RejectChar \/ RejectAtBlank \/ RejectAtBoundary \/ Reject \/ Finish
  \/ ReadComment \/ UnterminatedComment \/ ReadIdentifier \/ EndIdentifier
  \/ ReadUnknown \/ EndUnknown

Next == Step \/ Done

Spec == Init /\ [][Next]_vars /\ WF_vars(Step)

-----------------------------------------------------------------------------
TypeOK ==
  /\ input \in Inputs
  /\ read \in 0 .. Len(input)
  /\ held \in Seq(Chars)
  /\ lexeme \in Seq(Chars)
  /\ start \in 1 .. Len(input) + 1
  /\ mode \in Modes
  /\ result \in Seq(Token)
  /\ errors \in Seq(ErrorKinds)

(* Characters that were delivered and are not to be looked at again.       *)
Taken == read - Len(held)

(* A character put back is the one read last, and only the main loop, the  *)
(* one that looks at held characters, ever leaves one.                     *)
HeldIsLast ==
  held # << >> => mode = "scan" /\ read > 0 /\ held = << input[read] >>

(* No character is lost or read twice (pending, consume_current and the    *)
(* scan_ functions hand characters to each other): the tokens are pieces   *)
(* of the input one after the other, the current lexeme is the piece from  *)
(* its start up to the character in hand, and what is in none of them is   *)
(* blank.                                                                  *)
NothingLost ==
  /\ \A i \in 1 .. Len(result) :
       /\ 1 <= result[i].first
       /\ result[i].first <= result[i].last
       /\ result[i].text = SubSeq(input, result[i].first, result[i].last)
       /\ result[i].last <= Taken
       /\ lexeme # << >> => result[i].last < start
  /\ \A i, j \in 1 .. Len(result) : i < j => result[i].last < result[j].first
  /\ lexeme # << >> => start <= Taken /\ lexeme = SubSeq(input, start, Taken)
  /\ \A p \in 1 .. Taken :
       \/ input[p] \in Whitespace
       \/ lexeme # << >> /\ start <= p
       \/ \E i \in 1 .. Len(result) : result[i].first <= p /\ p <= result[i].last
  /\ mode = "done" => Taken = Len(input)

-----------------------------------------------------------------------------
(* The tokens by their shape, for comparison with the automaton.           *)

AllIn(s, S) == s # << >> /\ \A n \in 1 .. Len(s) : s[n] \in S

IsWord(s) == AllIn(s, Alphanumeric) /\ s[1] \in Letters

IsReal(s) ==
  \E d \in 2 .. Len(s) - 1 :
     /\ s[d] = "."
     /\ AllIn(SubSeq(s, 1, d - 1), Digits) /\ AllIn(SubSeq(s, d + 1, Len(s)), Digits)

(* Inside the outer quotes quotes come in runs of even length.             *)
EvenRun(s, n) ==
  \E a \in 2 .. n, b \in n .. Len(s) - 1 :
     /\ \A m \in a .. b : s[m] = "'"
     /\ a = 2 \/ s[a - 1] # "'"
     /\ b = Len(s) - 1 \/ s[b + 1] # "'"
     /\ (b - a) % 2 = 1

IsQuoted(s) ==
  /\ Len(s) >= 2 /\ s[1] = "'" /\ s[Len(s)] = "'"
  /\ \A n \in 2 .. Len(s) - 1 : /\ s[n] \notin HighChars \cup {"\n"}
                                /\ s[n] = "'" => EvenRun(s, n)

Symbols ==
  {<< c >> : c \in {"+", "-", "*", "/", "<", ">", "(", ")", "[", "]", Comma, Semicolon, ".", ":"}}
    \cup { <<"=", "=">>, <<"<", ">">>, <<">", "=">>, <<"<", "=">>, <<":", "=">> }

IsKeyword(s) == \E k \in Keyword : k[1] = [n \in DOMAIN s |-> Upper(s[n])]

HasShape(type, s) ==
  CASE type = "IDENT"   -> IsWord(s) /\ ~ IsKeyword(s)
    [] type = "INTCON"  -> AllIn(s, Digits)
    [] type = "REALCON" -> IsReal(s)
    [] type = "CHARCON" -> IsQuoted(s)
    [] type = "STRING"  -> IsQuoted(s)
    [] type \in {k[2] : k \in Keyword} ->
         << [n \in DOMAIN s |-> Upper(s[n])], type >> \in Keyword
    [] OTHER -> s \in Symbols

IsToken(s) ==
  \/ IsWord(s) \/ AllIn(s, Digits) \/ IsReal(s) \/ IsQuoted(s) \/ s \in Symbols

(* The second number of a range, which the automaton has read as digits.   *)
IsUpperBound(i) ==
  /\ i > 3
  /\ \A n \in i - 2 .. i - 1 :
       result[n].type = "PERIOD" /\ result[n].last + 1 = result[n + 1].first
  /\ result[i - 3].type = "INTCON" /\ result[i - 3].last + 1 = result[i - 2].first

(* The three keywords after which the table lacks an arrow (see Gap).      *)
LacksArrow(t) ==
  /\ t.type \in {"ANDSY", "ARRAYSY", "DOWNTOSY"}
  /\ Upper(input[t.last + 1]) = Upper(input[t.last])

(* Longest match: an accepted token has the shape of its type, and no      *)
(* longer piece of the input from the same place is a token.               *)
LongestMatch ==
  \A i \in 1 .. Len(result) :
     LET t == result[i] IN
     t.type \notin {"UNKNOWN", "COMMENT"} =>
       /\ HasShape(t.type, t.text)
       /\ \A n \in t.last + 1 .. Len(input) :
            LET longer == SubSeq(input, t.first, n) IN
            \/ ~ IsToken(longer)
            \/ IsUpperBound(i) /\ IsReal(longer)
            \/ LacksArrow(t)

(* A keyword or an identifier ends where its letters and digits end        *)
(* (test/milestone1/README.md: keyword/identifier boundaries).             *)
WholeWords ==
  \A i \in 1 .. Len(result) :
     IsWord(result[i].text) =>
       \/ result[i].last = Len(input)
       \/ input[result[i].last + 1] \notin Alphanumeric

(* main.cpp stops at an error of the lexer (hasErrors) when it has run the *)
(* lexer, and at a token UNKNOWN when it has read the tokens from a file:  *)
(* the two agree on every input.                                           *)
ErrorsAreUnknowns ==
  errors # << >> <=> \E i \in 1 .. Len(result) : result[i].type = "UNKNOWN"

(* decodeQuotedValue loses nothing: doubling the quotes inside the value   *)
(* gives the text that was read.                                           *)
Doubled(s) ==
  LET double[n \in 0 .. Len(s)] ==
        IF n = 0 THEN << >>
        ELSE double[n - 1] \o IF s[n] = "'" THEN << "'", "'" >> ELSE << s[n] >>
  IN  double[Len(s)]

QuotesRecovered ==
  \A i \in 1 .. Len(result) :
     LET t == result[i] IN
     t.type \in {"CHARCON", "STRING"} =>
       t.text = << "'" >> \o Doubled(SubSeq(Value(t), 2, Len(Value(t)) - 1)) \o << "'" >>

(* The lexer stops on every input: each character put back is consumed or  *)
(* starts a token at the next look.                                        *)
Finishes == <>(mode = "done")
=============================================================================
