----------------------------- MODULE LexerProofs ------------------------------
(***************************************************************************)
(* No character is lost between the loops of the lexer: proved for every   *)
(* set of characters and every input.                                      *)
(*                                                                         *)
(* The invariant says how far the input is settled, that is, cut into      *)
(* tokens and blanks: up to the character in hand between two tokens, up   *)
(* to the start of the lexeme within one.  It needs to know of the         *)
(* automaton that the lexeme is empty exactly in the start state, and that *)
(* a lexeme in a state behind the dots of a range contains them, or the    *)
(* range could not be cut into its four tokens.                            *)
(***************************************************************************)
EXTENDS Lexer, SequenceTheorems, TLAPS

(* What the automaton accepts is a token type.                             *)
LEMMA FoundType ==
  ASSUME NEW table, NEW key, \E e \in table : e[1] = key
  PROVE  Find(table, key) \in {e[2] : e \in table}
BY DEF Find

LEMMA AcceptedTypes ==
  \A at \in DOMAIN Accepted : Accepted[at] \in TokenTypes
BY DEF TokenTypes

LEMMA TokenForType == \A s : TokenFor(s) \in TokenTypes \cup {"none"}
<1> SUFFICES ASSUME NEW s PROVE TokenFor(s) \in TokenTypes \cup {"none"}
  OBVIOUS
<1>1. "IDENT" \in TokenTypes
  BY AcceptedTypes DEF Accepted
<1>2. (\E k \in Keyword : k[1] = s.word) => Find(Keyword, s.word) \in TokenTypes
  BY FoundType DEF TokenTypes
<1>3. (\E o \in Operator : o[1] = s.at) => Find(Operator, s.at) \in TokenTypes
  BY FoundType DEF TokenTypes
<1> QED
  BY <1>1, <1>2, <1>3, AcceptedTypes DEF TokenFor

(* Ranges are accepted in one state only.                                  *)
LEMMA NoKeywordIsRange == \A k \in Keyword : k[2] # "RANGE"
BY DEF Keyword

LEMMA NoOperatorIsRange == \A o \in Operator : o[2] # "RANGE"
BY DEF Operator

LEMMA RangeState == \A s : TokenFor(s) = "RANGE" => s.at = "range"
<1> SUFFICES ASSUME NEW s, TokenFor(s) = "RANGE" PROVE s.at = "range"
  OBVIOUS
<1>1. (\E k \in Keyword : k[1] = s.word) => Find(Keyword, s.word) # "RANGE"
  BY FoundType, NoKeywordIsRange
<1>2. (\E o \in Operator : o[1] = s.at) => Find(Operator, s.at) # "RANGE"
  BY FoundType, NoOperatorIsRange
<1>3. s.at \in DOMAIN Accepted /\ Accepted[s.at] = "RANGE"
  BY <1>1, <1>2 DEF TokenFor
<1> QED
  BY <1>3 DEF Accepted

(* Where the arrows lead that the dots of a range depend on.               *)
NumberStates(a) ==
  /\ a[3] # "start"
  /\ a[3] = "range" => a[1] \in {"dots", "range"}
  /\ a[3] = "dots" => a[1] = "point" /\ a[2] = {"."}
  /\ a[3] = "point" => a[1] = "integer" /\ a[2] = {"."}

LEMMA Arrows == \A a \in Arrow : NumberStates(a)
<1>1. \A a \in NumberArrow : NumberStates(a)
  BY DEF NumberArrow, NumberStates
<1>2. \A a \in QuoteArrow : NumberStates(a)
  <2>1. \A a \in QuoteArrow : a[3] \in {"quote", "empty", "one", "stale", "char", "many", "string"}
    BY DEF QuoteArrow
  <2> QED
    BY <2>1 DEF NumberStates
<1>3. \A a \in SignArrow : NumberStates(a)
  BY DEF SignArrow, NumberStates
<1>4. \A a \in SingleArrow : NumberStates(a)
  <2>1. Comma # "start" /\ Comma # "range" /\ Comma # "dots" /\ Comma # "point"
    BY DEF Comma
  <2>2. Semicolon # "start" /\ Semicolon # "range" /\ Semicolon # "dots" /\ Semicolon # "point"
    BY DEF Semicolon
  <2> QED
    BY <2>1, <2>2 DEF SingleArrow, NumberStates
<1> QED
  BY <1>1, <1>2, <1>3, <1>4 DEF Arrow

LEMMA NextStates ==
  ASSUME NEW s, NEW c
  PROVE  LET n == NextState(s, c) IN
         /\ n # Start
         /\ n.at = "range" => s.at \in {"dots", "range"}
         /\ n.at = "dots" => s.at = "point" /\ c = "."
         /\ n.at = "point" => s.at = "integer" /\ c = "."
<1> DEFINE n == NextState(s, c)
           Digital == {"range", "dots", "point", "start"}
<1>1. \A w : Word(w).at \in {"word", "identifier"}
  BY DEF Word, At
<1>2. CASE s.at \in {"word", "identifier"}
  <2>1. n.at \in {"null", "word", "identifier"}
    BY <1>1, <1>2 DEF NextState, WordNext, Null, At
  <2> QED
    BY <2>1 DEF Start, At
<1>3. CASE s.at = "start" /\ c \in Letters
  <2>1. n.at \in {"word", "identifier"}
    BY <1>1, <1>3 DEF NextState
  <2> QED
    BY <2>1 DEF Start, At
<1>4. CASE s.at \notin {"word", "identifier"} /\ ~ (s.at = "start" /\ c \in Letters)
  <2> DEFINE taken == {a \in Arrow : a[1] = s.at /\ c \in a[2]}
  <2>1. n = IF taken = {} THEN Null ELSE At((CHOOSE a \in taken : TRUE)[3])
    BY <1>4 DEF NextState, LiteralNext
  <2>2. CASE taken = {}
    BY <2>1, <2>2 DEF Null, At, Start
  <2>3. CASE taken # {}
    <3>1. PICK a \in taken : n = At(a[3])
      BY <2>1, <2>3
    <3>2. n.at = a[3] /\ a[1] = s.at /\ c \in a[2] /\ NumberStates(a)
      BY <3>1, Arrows DEF At
    <3> QED
      BY <3>2 DEF NumberStates, Start, At
  <2> QED
    BY <2>2, <2>3
<1> QED
  BY <1>2, <1>3, <1>4

-----------------------------------------------------------------------------
(* Pieces of a text x: tokens one after the other, blanks between them.    *)

IsPiece(x, t) ==
  /\ 1 <= t.first /\ t.first <= t.last /\ t.last <= Len(x)
  /\ t.text = SubSeq(x, t.first, t.last)

IsOrdered(r) == \A i, j \in 1 .. Len(r) : i < j => r[i].last < r[j].first

Covers(r, p) == \E i \in 1 .. Len(r) : r[i].first <= p /\ p <= r[i].last

(* ts are the tokens of x from place a to place e.                         *)
Tiles(x, ts, a, e) ==
  /\ ts \in Seq(Token)
  /\ \A i \in 1 .. Len(ts) : IsPiece(x, ts[i]) /\ a <= ts[i].first /\ ts[i].last <= e
  /\ IsOrdered(ts)
  /\ \A p \in a .. e : Covers(ts, p)

(* The first k characters of x are the tokens r and blanks.                *)
Settled(x, r, k) ==
  /\ r \in Seq(Token)
  /\ \A i \in 1 .. Len(r) : IsPiece(x, r[i]) /\ r[i].last <= k
  /\ IsOrdered(r)
  /\ \A p \in 1 .. k : x[p] \in Whitespace \/ Covers(r, p)

LEMMA SettledTokens ==
  ASSUME NEW r \in Seq(Token), NEW i \in 1 .. Len(r)
  PROVE  r[i] \in Token /\ r[i].first \in Nat /\ r[i].last \in Nat
<1>1. r[i] \in Token
  BY ElementOfSeq
<1> QED
  BY <1>1 DEF Token

LEMMA SettledBlank ==
  ASSUME NEW x, NEW r, NEW k \in Nat, Settled(x, r, k), x[k + 1] \in Whitespace
  PROVE  Settled(x, r, k + 1)
<1>1. r \in Seq(Token) /\ IsOrdered(r)
  BY DEF Settled
<1>2. \A i \in 1 .. Len(r) : IsPiece(x, r[i]) /\ r[i].last <= k + 1
  <2> SUFFICES ASSUME NEW i \in 1 .. Len(r) PROVE IsPiece(x, r[i]) /\ r[i].last <= k + 1
    OBVIOUS
  <2>1. r[i].last \in Nat
    BY <1>1, SettledTokens
  <2>2. IsPiece(x, r[i]) /\ r[i].last <= k
    BY DEF Settled
  <2> QED
    BY <2>1, <2>2
<1>3. \A p \in 1 .. k + 1 : x[p] \in Whitespace \/ Covers(r, p)
  <2> SUFFICES ASSUME NEW p \in 1 .. k + 1 PROVE x[p] \in Whitespace \/ Covers(r, p)
    OBVIOUS
  <2>1. p = k + 1 \/ p \in 1 .. k
    OBVIOUS
  <2> QED
    BY <2>1 DEF Settled
<1> QED
  BY <1>1, <1>2, <1>3 DEF Settled

(* Tokens are put behind those of a settled part.                          *)
LEMMA SettledTiles ==
  ASSUME NEW x, NEW r, NEW ts, NEW a \in Nat \ {0}, NEW e \in Nat, a <= e,
         Settled(x, r, a - 1), Tiles(x, ts, a, e)
  PROVE  Settled(x, r \o ts, e)
<1> DEFINE u == r \o ts
           n == Len(r)
<1>1. /\ r \in Seq(Token) /\ ts \in Seq(Token) /\ n \in Nat /\ Len(ts) \in Nat
      /\ u \in Seq(Token) /\ Len(u) = n + Len(ts)
  BY ConcatProperties DEF Settled, Tiles
<1>2. \A i \in 1 .. n : i \in 1 .. Len(u) /\ u[i] = r[i]
  BY <1>1, ConcatProperties
<1>3. \A i \in 1 .. Len(ts) : n + i \in 1 .. Len(u) /\ u[n + i] = ts[i]
  <2> SUFFICES ASSUME NEW i \in 1 .. Len(ts) PROVE n + i \in 1 .. Len(u) /\ u[n + i] = ts[i]
    OBVIOUS
  <2>1. n + i \in 1 .. Len(r) + Len(ts) /\ ~ (n + i <= Len(r)) /\ n + i - Len(r) = i
    BY <1>1
  <2> QED
    BY <1>1, <2>1, ConcatProperties
<1>4. \A i \in 1 .. Len(u) : i \in 1 .. n \/ \E j \in 1 .. Len(ts) : i = n + j
  <2> SUFFICES ASSUME NEW i \in 1 .. Len(u), i \notin 1 .. n
               PROVE  \E j \in 1 .. Len(ts) : i = n + j
    OBVIOUS
  <2>1. i - n \in 1 .. Len(ts) /\ i = n + (i - n)
    BY <1>1
  <2> QED
    BY <2>1
<1>5. \A i \in 1 .. n : /\ IsPiece(x, u[i]) /\ u[i].last <= a - 1
                        /\ u[i].first \in Nat /\ u[i].last \in Nat
  BY <1>1, <1>2, SettledTokens DEF Settled
<1>6. \A j \in 1 .. Len(ts) : /\ IsPiece(x, u[n + j]) /\ a <= u[n + j].first /\ u[n + j].last <= e
                               /\ u[n + j].first \in Nat /\ u[n + j].last \in Nat
  BY <1>1, <1>3, SettledTokens DEF Tiles
<1> HIDE DEF u, n
<1>7. \A i \in 1 .. Len(u) : IsPiece(x, u[i]) /\ u[i].last <= e
  <2> SUFFICES ASSUME NEW i \in 1 .. Len(u) PROVE IsPiece(x, u[i]) /\ u[i].last <= e
    OBVIOUS
  <2>1. CASE i \in 1 .. n
    BY <1>5, <2>1
  <2>2. CASE \E j \in 1 .. Len(ts) : i = n + j
    BY <1>6, <2>2
  <2> QED
    BY <1>4, <2>1, <2>2
<1>8. IsOrdered(u)
  <2> SUFFICES ASSUME NEW i \in 1 .. Len(u), NEW j \in 1 .. Len(u), i < j
               PROVE  u[i].last < u[j].first
    BY DEF IsOrdered
  <2>1. CASE i \in 1 .. n /\ j \in 1 .. n
    <3>1. r[i].last < r[j].first
      BY <2>1 DEF Settled, IsOrdered, n
    <3> QED
      BY <1>2, <2>1, <3>1
  <2>2. CASE i \in 1 .. n /\ \E l \in 1 .. Len(ts) : j = n + l
    BY <1>5, <1>6, <2>2
  <2>3. CASE (\E k \in 1 .. Len(ts) : i = n + k) /\ (\E l \in 1 .. Len(ts) : j = n + l)
    <3>1. PICK k \in 1 .. Len(ts), l \in 1 .. Len(ts) : i = n + k /\ j = n + l
      BY <2>3
    <3>2. ts[k].last < ts[l].first
      BY <1>1, <3>1 DEF Tiles, IsOrdered
    <3> QED
      BY <1>3, <3>1, <3>2
  <2>4. CASE (\E k \in 1 .. Len(ts) : i = n + k) /\ j \in 1 .. n
    BY <1>1, <2>4
  <2> QED
    BY <1>4, <2>1, <2>2, <2>3, <2>4
<1>9. \A p \in 1 .. e : x[p] \in Whitespace \/ Covers(u, p)
  <2> SUFFICES ASSUME NEW p \in 1 .. e PROVE x[p] \in Whitespace \/ Covers(u, p)
    OBVIOUS
  <2>1. CASE p \in 1 .. a - 1
    <3>1. CASE Covers(r, p)
      BY <1>2, <3>1 DEF Covers, n
    <3> QED
      BY <2>1, <3>1 DEF Settled
  <2>2. CASE p \in a .. e
    <3>1. PICK j \in 1 .. Len(ts) : ts[j].first <= p /\ p <= ts[j].last
      BY <2>2 DEF Tiles, Covers
    <3> QED
      BY <1>3, <3>1 DEF Covers
  <2> QED
    BY <2>1, <2>2
<1> QED
  BY <1>1, <1>7, <1>8, <1>9 DEF Settled, u

-----------------------------------------------------------------------------
(* The tokens that a text is emitted as cover it.                          *)

LEMMA OnePiece ==
  ASSUME NEW x \in Seq(Chars), NEW a \in 1 .. Len(x), NEW e \in a .. Len(x),
         NEW type \in TokenTypes
  PROVE  /\ Tok(type, SubSeq(x, a, e), a) \in Token
         /\ IsPiece(x, Tok(type, SubSeq(x, a, e), a))
         /\ Tok(type, SubSeq(x, a, e), a).first = a
         /\ Tok(type, SubSeq(x, a, e), a).last = e
<1> DEFINE text == SubSeq(x, a, e)
<1>1. \A i \in a .. e : x[i] \in Chars
  BY ElementOfSeq
<1>2. text \in Seq(Chars) /\ Len(text) = e - a + 1
  BY <1>1, SubSeqProperties
<1> HIDE DEF text
<1>3. a + Len(text) - 1 = e
  BY <1>2
<1>4. Tok(type, text, a) = [type |-> type, text |-> text, first |-> a, last |-> e]
  BY <1>3 DEF Tok
<1>5. Tok(type, text, a) \in Token
  BY <1>2, <1>4 DEF Token
<1>6. IsPiece(x, Tok(type, text, a))
  BY <1>4 DEF IsPiece, text
<1> QED
  BY <1>4, <1>5, <1>6 DEF text

LEMMA OneTile ==
  ASSUME NEW x \in Seq(Chars), NEW a \in 1 .. Len(x), NEW e \in a .. Len(x),
         NEW type \in TokenTypes
  PROVE  Tiles(x, << Tok(type, SubSeq(x, a, e), a) >>, a, e)
<1> DEFINE t == Tok(type, SubSeq(x, a, e), a)
<1>1. t \in Token /\ IsPiece(x, t) /\ t.first = a /\ t.last = e
  BY OnePiece
<1> HIDE DEF t
<1>2. << t >> \in Seq(Token) /\ Len(<< t >>) = 1 /\ << t >>[1] = t
  BY <1>1
<1>3. IsOrdered(<< t >>)
  BY <1>2 DEF IsOrdered
<1>4. \A p \in a .. e : Covers(<< t >>, p)
  BY <1>1, <1>2 DEF Covers
<1> QED
  BY <1>1, <1>2, <1>3, <1>4 DEF Tiles, t

(* A text with two dots behind its first and before its last character.    *)
HasDots(text) == \E d \in 2 .. Len(text) - 2 : text[d] = "." /\ text[d + 1] = "."

LEMMA RangeTypes == "INTCON" \in TokenTypes /\ "PERIOD" \in TokenTypes /\ "UNKNOWN" \in TokenTypes
                    /\ "COMMENT" \in TokenTypes /\ "IDENT" \in TokenTypes
<1>1. << ".", "PERIOD" >> \in Operator
  BY DEF Operator
<1>2. << ".", "PERIOD" >>[2] \in {o[2] : o \in Operator}
  BY <1>1
<1>3. "INTCON" \in TokenTypes /\ "UNKNOWN" \in TokenTypes /\ "IDENT" \in TokenTypes
  BY AcceptedTypes DEF Accepted
<1> QED
  BY <1>2, <1>3 DEF TokenTypes

(* Tokens that follow each other closely.                                  *)
LEMMA FourTiles ==
  ASSUME NEW x, NEW t1 \in Token, NEW t2 \in Token, NEW t3 \in Token, NEW t4 \in Token,
         IsPiece(x, t1), IsPiece(x, t2), IsPiece(x, t3), IsPiece(x, t4),
         t2.first = t1.last + 1, t3.first = t2.last + 1, t4.first = t3.last + 1
  PROVE  Tiles(x, << t1, t2, t3, t4 >>, t1.first, t4.last)
<1> DEFINE ts == << t1, t2, t3, t4 >>
           a == t1.first
           b == t2.first
           c == t3.first
           d == t4.first
           e == t4.last
<1>1. ts \in Seq(Token) /\ Len(ts) = 4 /\ ts[1] = t1 /\ ts[2] = t2 /\ ts[3] = t3 /\ ts[4] = t4
  OBVIOUS
<1>2. /\ a \in Nat /\ b \in Nat /\ c \in Nat /\ d \in Nat /\ e \in Nat
      /\ a < b /\ b < c /\ c < d /\ d <= e
      /\ t1.last = b - 1 /\ t2.last = c - 1 /\ t3.last = d - 1
  <2>1. \A t \in Token : t.first \in Nat /\ t.last \in Nat
    BY DEF Token
  <2>2. t1.first <= t1.last /\ t2.first <= t2.last /\ t3.first <= t3.last /\ t4.first <= t4.last
    BY DEF IsPiece
  <2> DEFINE p == t1.last
             q == t2.last
             u == t3.last
  <2>3. a \in Nat /\ b \in Nat /\ c \in Nat /\ d \in Nat /\ e \in Nat
        /\ p \in Nat /\ q \in Nat /\ u \in Nat
    BY <2>1
  <2>4. a <= p /\ b = p + 1 /\ b <= q /\ c = q + 1 /\ c <= u /\ d = u + 1 /\ d <= e
    BY <2>2
  <2> HIDE DEF a, b, c, d, e, p, q, u
  <2>5. a < b /\ b < c /\ c < d /\ d <= e /\ p = b - 1 /\ q = c - 1 /\ u = d - 1
    BY <2>3, <2>4
  <2> QED
    BY <2>3, <2>5 DEF p, q, u
<1>3. \A i \in 1 .. Len(ts) : i = 1 \/ i = 2 \/ i = 3 \/ i = 4
  BY <1>1
<1>7. /\ ts[1].first = a /\ ts[1].last = b - 1 /\ ts[2].first = b /\ ts[2].last = c - 1
      /\ ts[3].first = c /\ ts[3].last = d - 1 /\ ts[4].first = d /\ ts[4].last = e
  BY <1>1, <1>2
<1>8. \A i \in 1 .. Len(ts) : IsPiece(x, ts[i])
  BY <1>1, <1>3
<1> HIDE DEF ts, a, b, c, d, e
<1>9. /\ a \in Nat /\ b \in Nat /\ c \in Nat /\ d \in Nat /\ e \in Nat
      /\ a < b /\ b < c /\ c < d /\ d <= e
  BY <1>2
<1>4. \A i \in 1 .. Len(ts) : IsPiece(x, ts[i]) /\ a <= ts[i].first /\ ts[i].last <= e
  <2> SUFFICES ASSUME NEW i \in 1 .. Len(ts)
               PROVE  IsPiece(x, ts[i]) /\ a <= ts[i].first /\ ts[i].last <= e
    OBVIOUS
  <2>1. CASE i = 1
    BY <1>1, <1>7, <1>8, <1>9, <2>1
  <2>2. CASE i = 2
    BY <1>1, <1>7, <1>8, <1>9, <2>2
  <2>3. CASE i = 3
    BY <1>1, <1>7, <1>8, <1>9, <2>3
  <2>4. CASE i = 4
    BY <1>1, <1>7, <1>8, <1>9, <2>4
  <2> QED
    BY <1>3, <2>1, <2>2, <2>3, <2>4
<1>5. IsOrdered(ts)
  <2> SUFFICES ASSUME NEW i \in 1 .. Len(ts), NEW j \in 1 .. Len(ts), i < j
               PROVE  ts[i].last < ts[j].first
    BY DEF IsOrdered
  <2>1. CASE i = 1
    BY <1>7, <1>9, <1>3, <2>1
  <2>2. CASE i = 2
    BY <1>7, <1>9, <1>3, <2>2
  <2>3. CASE i = 3
    BY <1>7, <1>9, <1>3, <2>3
  <2>4. CASE i = 4
    BY <1>1, <1>3, <2>4
  <2> QED
    BY <1>3, <2>1, <2>2, <2>3, <2>4
<1>6. \A p \in a .. e : Covers(ts, p)
  <2> SUFFICES ASSUME NEW p \in a .. e PROVE Covers(ts, p)
    OBVIOUS
  <2>1. CASE p <= b - 1
    BY <1>1, <1>7, <1>8, <1>9, <2>1 DEF Covers
  <2>2. CASE b <= p /\ p <= c - 1
    BY <1>1, <1>7, <1>8, <1>9, <2>2 DEF Covers
  <2>3. CASE c <= p /\ p <= d - 1
    BY <1>1, <1>7, <1>8, <1>9, <2>3 DEF Covers
  <2>4. CASE d <= p
    BY <1>1, <1>7, <1>8, <1>9, <2>4 DEF Covers
  <2> QED
    BY <1>9, <2>1, <2>2, <2>3, <2>4
<1> QED
  BY <1>1, <1>4, <1>5, <1>6 DEF Tiles, ts, a, e

LEMMA OneCharacter ==
  ASSUME NEW x \in Seq(Chars), NEW i \in 1 .. Len(x)
  PROVE  SubSeq(x, i, i) = << x[i] >>
<1>1. x[i] \in Chars
  BY ElementOfSeq
<1>2. /\ SubSeq(x, i, i) \in Seq(Chars) /\ Len(SubSeq(x, i, i)) = 1
      /\ SubSeq(x, i, i)[1] = x[i]
  BY <1>1, SubSeqProperties
<1>3. << x[i] >> \in Seq(Chars) /\ Len(<< x[i] >>) = 1 /\ << x[i] >>[1] = x[i]
  BY <1>1
<1> DEFINE u == SubSeq(x, i, i)
           v == << x[i] >>
<1> HIDE DEF u, v
<1>4. u \in Seq(Chars) /\ v \in Seq(Chars) /\ Len(u) = Len(v) /\ \A k \in 1 .. Len(u) : u[k] = v[k]
  BY <1>2, <1>3 DEF u, v
<1>5. u = v
  BY <1>4, SeqEqual
<1> QED
  BY <1>5 DEF u, v

LEMMA RangeTiles ==
  ASSUME NEW x \in Seq(Chars), NEW a \in 1 .. Len(x), NEW e \in a .. Len(x),
         NEW text, text = SubSeq(x, a, e), HasDots(text)
  PROVE  Tiles(x, RangeTokens(text, a), a, e)
<1> DEFINE d == DotsOf(text)
           b == a + d - 1
           t1 == Tok("INTCON", SubSeq(text, 1, d - 1), a)
           t2 == Tok("PERIOD", << "." >>, a + d - 1)
           t3 == Tok("PERIOD", << "." >>, a + d)
           t4 == Tok("INTCON", SubSeq(text, d + 2, Len(text)), a + d + 1)
<1>1. /\ text \in Seq(Chars) /\ Len(text) = e - a + 1
      /\ \A i \in 1 .. e - a + 1 : text[i] = x[a + i - 1]
  <2>1. \A i \in a .. e : x[i] \in Chars
    BY ElementOfSeq
  <2> QED
    BY <2>1, SubSeqProperties
<1>2. d \in 2 .. Len(text) - 2 /\ text[d] = "." /\ text[d + 1] = "."
  BY DEF DotsOf, HasDots
<1>3. /\ d \in Nat /\ b \in Nat /\ a < b /\ b + 2 <= e /\ a + d = b + 1 /\ a + d + 1 = b + 2
      /\ Len(text) \in Nat
  BY <1>1, <1>2
<1> HIDE DEF d, b
<1>4. x[b] = "." /\ x[b + 1] = "."
  <2>1. text[d] = x[a + d - 1] /\ text[d + 1] = x[a + (d + 1) - 1]
    BY <1>1, <1>2
  <2>2. a + d - 1 = b /\ a + (d + 1) - 1 = b + 1
    BY <1>3 DEF b
  <2> QED
    BY <1>2, <2>1, <2>2
<1>5. \A i \in 1 .. Len(x) : SubSeq(x, i, i) = << x[i] >>
  BY OneCharacter
<1>6. SubSeq(text, 1, d - 1) = SubSeq(x, a, b - 1)
  <2>1. /\ 1 \in 1 .. e - a + 1 /\ d - 1 \in 1 .. e - a + 1
        /\ a + 1 - 1 = a /\ a + (d - 1) - 1 = b - 1
    BY <1>1, <1>2, <1>3
  <2>2. \A m, n \in 1 .. e - a + 1 : SubSeq(SubSeq(x, a, e), m, n) = SubSeq(x, a + m - 1, a + n - 1)
    BY SubSeqOfSubSeq
  <2> QED
    BY <2>1, <2>2
<1>7. SubSeq(text, d + 2, Len(text)) = SubSeq(x, b + 2, e)
  <2>1. /\ d + 2 \in 1 .. e - a + 1 /\ Len(text) \in 1 .. e - a + 1
        /\ a + (d + 2) - 1 = b + 2 /\ a + Len(text) - 1 = e
    BY <1>1, <1>2, <1>3
  <2>2. \A m, n \in 1 .. e - a + 1 : SubSeq(SubSeq(x, a, e), m, n) = SubSeq(x, a + m - 1, a + n - 1)
    BY SubSeqOfSubSeq
  <2> QED
    BY <2>1, <2>2
<1>8. /\ b \in 1 .. Len(x) /\ b + 1 \in 1 .. Len(x) /\ b + 2 \in 1 .. Len(x) /\ b - 1 \in a .. Len(x)
      /\ b \in b .. Len(x) /\ b + 1 \in b + 1 .. Len(x) /\ e \in b + 2 .. Len(x) /\ b = a + d - 1
  BY <1>3 DEF b
<1>9. t1 \in Token /\ IsPiece(x, t1) /\ t1.first = a /\ t1.last = b - 1
  <2> DEFINE l == b - 1
  <2>1. t1 = Tok("INTCON", SubSeq(x, a, l), a)
    BY <1>6
  <2>2. a \in 1 .. Len(x) /\ l \in a .. Len(x)
    BY <1>8
  <2> HIDE DEF t1, l
  <2>3. t1 \in Token /\ IsPiece(x, t1) /\ t1.first = a /\ t1.last = l
    BY <2>1, <2>2, OnePiece, RangeTypes
  <2> QED
    BY <2>3 DEF l
<1>10. t2 \in Token /\ IsPiece(x, t2) /\ t2.first = b /\ t2.last = b + 1 - 1
  <2>1. << "." >> = SubSeq(x, b, b) /\ b + 1 - 1 = b
    BY <1>3, <1>4, <1>5, <1>8
  <2>2. t2 = Tok("PERIOD", SubSeq(x, b, b), b)
    BY <2>1, <1>8
  <2>3. b \in 1 .. Len(x) /\ b \in b .. Len(x)
    BY <1>8
  <2> HIDE DEF t2
  <2>4. t2 \in Token /\ IsPiece(x, t2) /\ t2.first = b /\ t2.last = b
    BY <2>2, <2>3, OnePiece, RangeTypes
  <2> QED
    BY <2>1, <2>4
<1>11. t3 \in Token /\ IsPiece(x, t3) /\ t3.first = b + 1 /\ t3.last = b + 2 - 1
  <2>1. << "." >> = SubSeq(x, b + 1, b + 1) /\ b + 2 - 1 = b + 1 /\ a + d = b + 1
    BY <1>3, <1>4, <1>5, <1>8
  <2> DEFINE c == b + 1
  <2>2. t3 = Tok("PERIOD", SubSeq(x, c, c), c)
    BY <2>1
  <2>3. c \in 1 .. Len(x) /\ c \in c .. Len(x) /\ b + 2 - 1 = c
    BY <2>1, <1>8
  <2> HIDE DEF t3, c
  <2>4. t3 \in Token /\ IsPiece(x, t3) /\ t3.first = c /\ t3.last = c
    BY <2>2, <2>3, OnePiece, RangeTypes
  <2> QED
    BY <2>3, <2>4 DEF c
<1>12. t4 \in Token /\ IsPiece(x, t4) /\ t4.first = b + 2 /\ t4.last = e
  <2> DEFINE c == b + 2
  <2>1. t4 = Tok("INTCON", SubSeq(x, c, e), c)
    BY <1>3, <1>7
  <2>2. c \in 1 .. Len(x) /\ e \in c .. Len(x)
    BY <1>8
  <2> HIDE DEF t4, c
  <2>3. t4 \in Token /\ IsPiece(x, t4) /\ t4.first = c /\ t4.last = e
    BY <2>1, <2>2, OnePiece, RangeTypes
  <2> QED
    BY <2>3 DEF c
<1>13. RangeTokens(text, a) = << t1, t2, t3, t4 >>
  BY DEF RangeTokens, d
<1> HIDE DEF t1, t2, t3, t4
<1>14. a \in Nat /\ b \in Nat /\ b + 1 \in Nat /\ b + 2 \in Nat /\ e \in Nat
  BY <1>3
<1>15. Tiles(x, << t1, t2, t3, t4 >>, a, e)
  <2>1. t2.first = t1.last + 1 /\ t3.first = t2.last + 1 /\ t4.first = t3.last + 1
    BY <1>9, <1>10, <1>11, <1>12, <1>14
  <2>2. Tiles(x, << t1, t2, t3, t4 >>, t1.first, t4.last)
    BY <1>9, <1>10, <1>11, <1>12, <2>1, FourTiles
  <2> QED
    BY <1>9, <1>12, <2>2
<1> QED
  BY <1>13, <1>15

(* What write_token is given is settled afterwards.                        *)
LEMMA SettledEmit ==
  ASSUME NEW x \in Seq(Chars), NEW r, NEW a \in 1 .. Len(x), NEW e \in a .. Len(x),
         NEW type \in TokenTypes, NEW text, text = SubSeq(x, a, e),
         type = "RANGE" => HasDots(text), Settled(x, r, a - 1)
  PROVE  Settled(x, r \o TokensOf(type, text, a), e)
<1>1. Tiles(x, TokensOf(type, text, a), a, e)
  <2>1. CASE type = "RANGE"
    BY <2>1, RangeTiles DEF TokensOf
  <2>2. CASE type # "RANGE"
    BY <2>2, OneTile DEF TokensOf
  <2> QED
    BY <2>1, <2>2
<1>2. a \in Nat \ {0} /\ e \in Nat /\ a <= e
  OBVIOUS
<1> QED
  BY <1>1, <1>2, SettledTiles

-----------------------------------------------------------------------------
(* The inductive invariant.                                                *)

Progress ==
  IF lexeme = << >> THEN Settled(input, result, Taken)
  ELSE /\ start \in 1 .. Taken
       /\ lexeme = SubSeq(input, start, Taken)
       /\ Settled(input, result, start - 1)

DotsRead ==
  /\ state.at = "point" => Len(lexeme) >= 2 /\ lexeme[Len(lexeme)] = "."
  /\ state.at = "dots" => /\ Len(lexeme) >= 3
                          /\ lexeme[Len(lexeme) - 1] = "." /\ lexeme[Len(lexeme)] = "."
  /\ state.at = "range" => HasDots(lexeme)

ModeInv ==
  /\ mode = "scan" => (lexeme = << >> <=> state = Start)
  /\ mode \in {"comment", "identifier", "unknown"} => lexeme # << >> /\ state = Start
  /\ mode = "done" => lexeme = << >> /\ Taken = Len(input)

IInv ==
  /\ input \in Inputs
  /\ read \in 0 .. Len(input)
  /\ start \in 1 .. Len(input) + 1
  /\ mode \in Modes
  /\ errors \in Seq(ErrorKinds)
  /\ HeldIsLast
  /\ Progress
  /\ DotsRead
  /\ ModeInv

LEMMA InputSeq == IInv => input \in Seq(Chars) /\ Len(input) \in Nat
BY InputsAssumption DEF IInv

LEMMA HeldLength == HeldIsLast => held = << >> \/ (Len(held) = 1 /\ held[1] = input[read])
BY DEF HeldIsLast

LEMMA TakenRange == IInv => Taken \in 0 .. Len(input)
<1> SUFFICES ASSUME IInv PROVE Taken \in 0 .. Len(input)
  OBVIOUS
<1>1. read \in Nat /\ read <= Len(input) /\ Len(input) \in Nat
  BY InputSeq DEF IInv
<1>2. CASE held = << >>
  BY <1>1, <1>2 DEF Taken
<1>3. CASE held # << >>
  <2>1. Len(held) = 1 /\ read > 0
    BY <1>3, HeldLength DEF IInv, HeldIsLast
  <2> QED
    BY <1>1, <2>1 DEF Taken
<1> QED
  BY <1>2, <1>3

(* The character in hand is the first one that is not taken.               *)
LEMMA Hand ==
  ASSUME IInv, Available
  PROVE  Place \in 1 .. Len(input) /\ Place = Taken + 1 /\ Current = input[Place]
<1>1. read \in Nat /\ read <= Len(input) /\ Len(input) \in Nat
  BY InputSeq DEF IInv
<1>2. CASE held = << >>
  BY <1>1, <1>2 DEF Taken, Place, Current, Available
<1>3. CASE held # << >>
  <2>1. Len(held) = 1 /\ read > 0 /\ held[1] = input[read]
    BY <1>3, HeldLength DEF IInv, HeldIsLast
  <2> QED
    BY <1>1, <1>3, <2>1 DEF Taken, Place, Current
<1> QED
  BY <1>2, <1>3

LEMMA HandAtEnd ==
  ASSUME IInv, AtEnd
  PROVE  Taken = Len(input)
BY InputSeq DEF IInv, AtEnd, Taken

LEMMA ConsumeEffect ==
  ASSUME IInv, Available, Consume
  PROVE  read' \in 0 .. Len(input) /\ held' = << >> /\ Taken' = Place
<1>1. Place \in 1 .. Len(input)
  BY Hand
<1> QED
  BY <1>1 DEF Consume, Taken

LEMMA LookAgainEffect ==
  ASSUME IInv, Available, LookAgain
  PROVE  /\ read' \in 1 .. Len(input) /\ held' = << input[read'] >>
         /\ Taken' = Taken
<1>1. Place \in 1 .. Len(input) /\ Place = Taken + 1 /\ Current = input[Place] /\ Taken \in Nat
  BY Hand, TakenRange
<1>2. read' = Place /\ held' = << input[Place] >>
  BY <1>1 DEF LookAgain
<1>3. Len(held') = 1
  BY <1>2
<1>4. Taken' = Place - 1
  BY <1>2, <1>3 DEF Taken
<1> QED
  BY <1>1, <1>2, <1>4

LEMMA LexemeText ==
  ASSUME IInv, lexeme # << >>
  PROVE  /\ start \in 1 .. Len(input) /\ Taken \in start .. Len(input)
         /\ lexeme = SubSeq(input, start, Taken)
         /\ lexeme \in Seq(Chars) /\ Len(lexeme) = Taken - start + 1
         /\ Settled(input, result, start - 1)
<1>1. start \in 1 .. Len(input) /\ Taken \in start .. Len(input)
  BY TakenRange, InputSeq DEF IInv, Progress
<1>2. \A i \in start .. Taken : input[i] \in Chars
  BY <1>1, InputSeq, ElementOfSeq
<1>3. lexeme = SubSeq(input, start, Taken) /\ Settled(input, result, start - 1)
  BY DEF IInv, Progress
<1>4. start \in Int /\ Taken \in Int /\ start <= Taken
  BY <1>1
<1>5. SubSeq(input, start, Taken) \in Seq(Chars) /\ Len(SubSeq(input, start, Taken)) = Taken - start + 1
  BY <1>2, <1>4, SubSeqProperties
<1> QED
  BY <1>1, <1>3, <1>5

(* The lexeme and the character in hand.                                   *)
LEMMA LongerText ==
  ASSUME IInv, Available, lexeme # << >>
  PROVE  /\ Append(lexeme, Current) = SubSeq(input, start, Place)
         /\ Append(lexeme, Current) # << >>
         /\ Place \in start .. Len(input)
         /\ Len(Append(lexeme, Current)) = Len(lexeme) + 1
         /\ \A i \in 1 .. Len(lexeme) : Append(lexeme, Current)[i] = lexeme[i]
         /\ Append(lexeme, Current)[Len(lexeme) + 1] = Current
<1>1. /\ input \in Seq(Chars) /\ start \in 1 .. Len(input) /\ Taken \in start .. Len(input)
      /\ lexeme = SubSeq(input, start, Taken) /\ lexeme \in Seq(Chars)
  BY LexemeText, InputSeq
<1>2. Place \in 1 .. Len(input) /\ Place = Taken + 1 /\ Current = input[Place]
  BY Hand
<1>3. Current \in Chars
  BY <1>1, <1>2, ElementOfSeq
<1>4. start \in 1 .. Len(input) /\ Place \in start .. Len(input) /\ Place - 1 = Taken
  BY <1>1, <1>2
<1>5. SubSeq(input, start, Place) = SubSeq(input, start, Place - 1) \o << input[Place] >>
  BY <1>1, <1>4, SubSeqRecursiveSecond
<1>6. SubSeq(input, start, Place) = lexeme \o << Current >>
  BY <1>1, <1>2, <1>4, <1>5
<1>7. Append(lexeme, Current) = lexeme \o << Current >>
  BY <1>1, <1>3
<1>8. /\ Len(Append(lexeme, Current)) = Len(lexeme) + 1 /\ Len(lexeme) \in Nat
      /\ \A i \in 1 .. Len(lexeme) : Append(lexeme, Current)[i] = lexeme[i]
      /\ Append(lexeme, Current)[Len(lexeme) + 1] = Current
  BY <1>1, <1>3
<1>9. Append(lexeme, Current) # << >>
  BY <1>8
<1> QED
  BY <1>4, <1>6, <1>7, <1>8, <1>9

(* Emitting the lexeme, with or without the character in hand.             *)
LEMMA EmitLexeme ==
  ASSUME IInv, lexeme # << >>, NEW type \in TokenTypes, type = "RANGE" => HasDots(lexeme)
  PROVE  Settled(input, result \o TokensOf(type, lexeme, start), Taken)
<1>1. /\ input \in Seq(Chars) /\ start \in 1 .. Len(input) /\ Taken \in start .. Len(input)
      /\ lexeme = SubSeq(input, start, Taken) /\ Settled(input, result, start - 1)
  BY LexemeText, InputSeq
<1> QED
  BY <1>1, SettledEmit

LEMMA EmitLonger ==
  ASSUME IInv, Available, lexeme # << >>
  PROVE  Settled(input, result \o TokensOf("COMMENT", Append(lexeme, Current), start), Place)
<1>1. /\ input \in Seq(Chars) /\ start \in 1 .. Len(input) /\ Place \in start .. Len(input)
      /\ Append(lexeme, Current) = SubSeq(input, start, Place)
      /\ Settled(input, result, start - 1)
  BY LexemeText, LongerText, InputSeq
<1>2. "COMMENT" \in TokenTypes
  BY RangeTypes
<1> QED
  BY <1>1, <1>2, SettledEmit

LEMMA EmitCurrent ==
  ASSUME IInv, Available, lexeme = << >>
  PROVE  Settled(input, result \o TokensOf("UNKNOWN", << Current >>, Place), Place)
<1>1. Place \in 1 .. Len(input) /\ Place - 1 = Taken /\ Current = input[Place]
      /\ input \in Seq(Chars)
  BY Hand, TakenRange, InputSeq
<1>2. Settled(input, result, Place - 1)
  BY <1>1 DEF IInv, Progress
<1>3. << Current >> = SubSeq(input, Place, Place)
  BY <1>1, OneCharacter
<1>4. "UNKNOWN" \in TokenTypes /\ Place \in Place .. Len(input)
  BY <1>1, RangeTypes
<1> QED
  BY <1>1, <1>2, <1>3, <1>4, SettledEmit

-----------------------------------------------------------------------------
(* Steps that end a token, and steps that go on with one in a loop.        *)

LEMMA RestartInv ==
  ASSUME IInv, Restart, read' \in 0 .. Len(input), HeldIsLast', errors' \in Seq(ErrorKinds),
         mode' \in {"scan", "done"}, Settled(input, result', Taken'),
         mode' = "done" => Taken' = Len(input)
  PROVE  IInv'
<1>1. lexeme' = << >> /\ state' = Start /\ input' = input /\ start' = start
  BY DEF Restart
<1>2. Progress'
  BY <1>1 DEF Progress
<1>3. DotsRead'
  BY <1>1 DEF DotsRead, Start, At
<1>4. ModeInv'
  BY <1>1 DEF ModeInv
<1>5. mode' \in Modes
  BY DEF Modes
<1> QED
  BY <1>1, <1>2, <1>3, <1>4, <1>5 DEF IInv

LEMMA GrowInv ==
  ASSUME IInv, Available, Consume, lexeme # << >>, lexeme' = Append(lexeme, Current),
         state' = Start, mode' \in {"comment", "identifier", "unknown"},
         UNCHANGED << input, start, result, errors >>
  PROVE  IInv'
<1>1. /\ lexeme' = SubSeq(input, start, Place) /\ lexeme' # << >> /\ Place \in start .. Len(input)
      /\ Settled(input, result, start - 1) /\ start \in 1 .. Len(input)
  BY LongerText, LexemeText
<1>2. read' \in 0 .. Len(input) /\ held' = << >> /\ Taken' = Place
  BY ConsumeEffect
<1>3. Progress'
  BY <1>1, <1>2 DEF Progress
<1>4. DotsRead'
  BY DEF DotsRead, Start, At
<1>5. ModeInv'
  BY <1>1 DEF ModeInv
<1>6. HeldIsLast'
  BY <1>2 DEF HeldIsLast
<1>7. mode' \in Modes
  BY DEF Modes
<1> QED
  BY <1>2, <1>3, <1>4, <1>5, <1>6, <1>7 DEF IInv

LEMMA ErrorsAppended ==
  ASSUME errors \in Seq(ErrorKinds), NEW type, NEW text, NEW at,
         Emit(type, text, at) \/ EmitUnknown(text, at, << >>)
           \/ EmitUnknown(text, at, << "unterminated_comment" >>)
           \/ EmitUnknown(text, at, UnclosedQuote(text))
  PROVE  errors' \in Seq(ErrorKinds)
<1>1. /\ "invalid_token" \in ErrorKinds /\ "unclosed_quote" \in ErrorKinds
      /\ "unterminated_comment" \in ErrorKinds
  BY DEF ErrorKinds
<1>2. UnclosedQuote(text) \in Seq(ErrorKinds)
  BY <1>1 DEF UnclosedQuote
<1>3. \A before \in Seq(ErrorKinds) : errors \o before \o << "invalid_token" >> \in Seq(ErrorKinds)
  BY <1>1
<1>4. Append(errors, "invalid_token") \in Seq(ErrorKinds)
  BY <1>1
<1>5. << >> \in Seq(ErrorKinds) /\ << "unterminated_comment" >> \in Seq(ErrorKinds)
  BY <1>1
<1> HIDE DEF UnclosedQuote
<1> QED
  BY <1>2, <1>3, <1>4, <1>5 DEF Emit, EmitUnknown

(* After a token, the character in hand is consumed only if it is blank.   *)
LEMMA EndsAtBlank ==
  ASSUME IInv, Available, Current \in Whitespace, Consume, NEW r, Settled(input, r, Taken)
  PROVE  Settled(input, r, Taken') /\ read' \in 0 .. Len(input) /\ HeldIsLast'
<1>1. Place = Taken + 1 /\ Current = input[Place] /\ Taken \in Nat
  BY Hand, TakenRange
<1>2. read' \in 0 .. Len(input) /\ held' = << >> /\ Taken' = Place
  BY ConsumeEffect
<1>3. Settled(input, r, Taken + 1)
  BY <1>1, SettledBlank
<1> QED
  BY <1>1, <1>2, <1>3 DEF HeldIsLast

LEMMA EndsLookingAgain ==
  ASSUME IInv, Available, LookAgain, mode' = "scan", input' = input, NEW r, Settled(input, r, Taken)
  PROVE  Settled(input, r, Taken') /\ read' \in 0 .. Len(input) /\ HeldIsLast'
<1>1. read' \in 1 .. Len(input) /\ held' = << input[read'] >> /\ Taken' = Taken
  BY LookAgainEffect
<1> QED
  BY <1>1 DEF HeldIsLast

LEMMA EndsAtEnd ==
  ASSUME IInv, AtEnd, UNCHANGED << read, held >>, input' = input, NEW r, Settled(input, r, Taken)
  PROVE  /\ Settled(input, r, Taken') /\ read' \in 0 .. Len(input) /\ HeldIsLast'
         /\ Taken' = Len(input)
<1>1. Taken' = Taken
  BY DEF Taken
<1>2. Taken = Len(input)
  BY HandAtEnd
<1> QED
  BY <1>1, <1>2 DEF AtEnd, HeldIsLast, IInv

-----------------------------------------------------------------------------
(* The actions one by one.                                                 *)

(* In the main loop a lexeme is under way exactly outside the start state. *)
LEMMA ScanMode ==
  ASSUME IInv, mode = "scan"
  PROVE  lexeme = << >> <=> state = Start
BY DEF IInv, ModeInv

LEMMA LoopMode ==
  ASSUME IInv, mode \in {"comment", "identifier", "unknown"}
  PROVE  lexeme # << >> /\ state = Start
BY DEF IInv, ModeInv

LEMMA StartToken == TokenFor(Start) = "none"
<1>1. Start.at = "start"
  BY DEF Start, At
<1>2. "start" \notin DOMAIN Accepted
  BY DEF Accepted
<1>3. \A o \in Operator : o[1] # "start"
  <2>1. Comma # "start" /\ Semicolon # "start"
    BY DEF Comma, Semicolon
  <2> QED
    BY <2>1 DEF Operator
<1> QED
  BY <1>1, <1>2, <1>3 DEF TokenFor

LEMMA SkipBlankInv == IInv /\ SkipBlank => IInv'
<1> SUFFICES ASSUME IInv, SkipBlank PROVE IInv'
  OBVIOUS
<1>1. Available /\ Consume /\ lexeme = << >> /\ Current \in Whitespace /\ mode = "scan"
  BY DEF SkipBlank
<1>2. Settled(input, result, Taken)
  BY <1>1 DEF IInv, Progress
<1>3. Settled(input, result, Taken') /\ read' \in 0 .. Len(input) /\ HeldIsLast'
  BY <1>1, <1>2, EndsAtBlank
<1>4. Restart /\ result' = result /\ errors' = errors /\ mode' = "scan"
  BY <1>1 DEF SkipBlank, Restart
<1> QED
  BY <1>3, <1>4, RestartInv DEF IInv

LEMMA OpenBraceInv == IInv /\ OpenBrace => IInv'
<1> SUFFICES ASSUME IInv, OpenBrace PROVE IInv'
  OBVIOUS
<1>1. /\ Available /\ Consume /\ lexeme = << >> /\ lexeme' = << Current >> /\ start' = Place
      /\ input' = input /\ result' = result /\ errors' = errors
  BY DEF OpenBrace
<1>2. /\ read' \in 0 .. Len(input) /\ held' = << >> /\ Taken' = Place
  BY <1>1, ConsumeEffect
<1>3. /\ Place \in 1 .. Len(input) /\ Place = Taken + 1 /\ Place - 1 = Taken
      /\ << Current >> = SubSeq(input, Place, Place)
  <2>1. Place \in 1 .. Len(input) /\ Place = Taken + 1 /\ Current = input[Place]
    BY <1>1, Hand
  <2>2. Place - 1 = Taken
    BY <2>1, TakenRange
  <2>3. << input[Place] >> = SubSeq(input, Place, Place)
    BY <2>1, InputSeq, OneCharacter
  <2> QED
    BY <2>1, <2>2, <2>3
<1>4. Settled(input, result, Place - 1)
  BY <1>1, <1>3 DEF IInv, Progress
<1>5. Progress'
  <2>1. lexeme' # << >> /\ start' \in 1 .. Taken'
    BY <1>1, <1>2, <1>3
  <2>2. lexeme' = SubSeq(input', start', Taken') /\ Settled(input', result', start' - 1)
    BY <1>1, <1>2, <1>3, <1>4
  <2> QED
    BY <2>1, <2>2 DEF Progress
<1>6. DotsRead'
  BY DEF DotsRead, OpenBrace, Start, At
<1>7. ModeInv' /\ mode' \in Modes
  BY DEF ModeInv, OpenBrace, Modes
<1>8. HeldIsLast'
  BY <1>2 DEF HeldIsLast
<1>9. start' \in 1 .. Len(input) + 1
  BY <1>1, <1>3, InputSeq
<1> QED
  BY <1>1, <1>2, <1>5, <1>6, <1>7, <1>8, <1>9 DEF IInv

LEMMA ExtendInv == IInv /\ Extend => IInv'
<1> SUFFICES ASSUME IInv, Extend PROVE IInv'
  OBVIOUS
<1> DEFINE next == NextState(state, Current)
           comment == mode' = "comment" /\ state' = Start
           scan == mode' = "scan" /\ state' = next
<1>1. /\ Available /\ Consume /\ lexeme' = Append(lexeme, Current) /\ mode = "scan"
      /\ start' = IF lexeme = << >> THEN Place ELSE start
      /\ comment \/ scan
      /\ input' = input /\ result' = result /\ errors' = errors
  BY DEF Extend, Steps
<1>2. /\ read' \in 0 .. Len(input) /\ held' = << >> /\ Taken' = Place
  BY <1>1, ConsumeEffect
<1>3. /\ Place \in 1 .. Len(input) /\ Place = Taken + 1 /\ Current = input[Place]
      /\ Taken \in Nat /\ Len(input) \in Nat /\ input \in Seq(Chars)
  BY <1>1, Hand, TakenRange, InputSeq
<1> HIDE DEF next
<1>4. /\ start' \in 1 .. Place /\ lexeme' = SubSeq(input, start', Place) /\ lexeme' # << >>
      /\ Settled(input, result, start' - 1)
  <2>1. CASE lexeme = << >>
    <3>1. start' = Place /\ Place - 1 = Taken
      BY <1>1, <1>3, <2>1
    <3>2. Settled(input, result, Taken)
      BY <2>1 DEF IInv, Progress
    <3>3. lexeme' = << Current >>
      BY <1>1, <2>1
    <3>4. << input[Place] >> = SubSeq(input, Place, Place)
      BY <1>3, OneCharacter
    <3>5. lexeme' # << >>
      BY <3>3
    <3> QED
      BY <1>3, <3>1, <3>2, <3>3, <3>4, <3>5
  <2>2. CASE lexeme # << >>
    <3>1. start' = start
      BY <1>1, <2>2
    <3>2. /\ lexeme' = SubSeq(input, start, Place) /\ lexeme' # << >> /\ Place \in start .. Len(input)
      BY <1>1, <2>2, LongerText
    <3>3. Settled(input, result, start - 1) /\ start \in 1 .. Len(input)
      BY <2>2, LexemeText
    <3>4. start \in 1 .. Place
      BY <1>3, <3>2, <3>3
    <3> QED
      BY <3>1, <3>2, <3>3, <3>4
  <2> QED
    BY <2>1, <2>2
<1>5. Progress'
  BY <1>1, <1>2, <1>4 DEF Progress
<1>6. DotsRead'
  <2>1. CASE comment
    BY <2>1 DEF DotsRead, Start, At
  <2>2. CASE scan
    <3>1. /\ next.at = "range" => state.at \in {"dots", "range"}
          /\ next.at = "dots" => state.at = "point" /\ Current = "."
          /\ next.at = "point" => state.at = "integer" /\ Current = "."
      BY NextStates DEF next
    <3>2. CASE lexeme = << >>
      <4>1. state.at = "start"
        BY <1>1, <3>2, ScanMode DEF Start, At
      <4> QED
        BY <2>2, <3>1, <4>1 DEF DotsRead
    <3>3. CASE lexeme # << >>
      <4> DEFINE n == Len(lexeme)
      <4>1. /\ n \in Nat \ {0} /\ Len(lexeme') = n + 1
            /\ \A i \in 1 .. n : lexeme'[i] = lexeme[i]
            /\ lexeme'[n + 1] = Current
        BY <1>1, <3>3, LongerText, LexemeText
      <4> HIDE DEF n
      <4>2. state'.at = "point" => Len(lexeme') >= 2 /\ lexeme'[Len(lexeme')] = "."
        BY <2>2, <3>1, <4>1
      <4>3. state'.at = "dots" => /\ Len(lexeme') >= 3 /\ lexeme'[Len(lexeme') - 1] = "."
                                 /\ lexeme'[Len(lexeme')] = "."
        <5> SUFFICES ASSUME state'.at = "dots"
                     PROVE  /\ Len(lexeme') >= 3 /\ lexeme'[Len(lexeme') - 1] = "."
                            /\ lexeme'[Len(lexeme')] = "."
          OBVIOUS
        <5>1. Current = "." /\ n >= 2 /\ lexeme[n] = "."
          BY <2>2, <3>1 DEF IInv, DotsRead, n
        <5>2. Len(lexeme') - 1 = n /\ n \in 1 .. n
          BY <4>1
        <5> QED
          BY <4>1, <5>1, <5>2
      <4>4. state'.at = "range" => HasDots(lexeme')
        <5> SUFFICES ASSUME state'.at = "range" PROVE HasDots(lexeme')
          OBVIOUS
        <5>1. CASE state.at = "dots"
          <6>1. n >= 3 /\ lexeme[n - 1] = "." /\ lexeme[n] = "."
            BY <5>1 DEF IInv, DotsRead, n
          <6>2. /\ n - 1 \in 2 .. Len(lexeme') - 2 /\ n - 1 \in 1 .. n /\ n \in 1 .. n
                /\ n - 1 + 1 = n
            BY <4>1, <6>1
          <6> QED
            BY <4>1, <6>1, <6>2 DEF HasDots
        <5>2. CASE state.at = "range"
          <6>1. PICK d \in 2 .. n - 2 : lexeme[d] = "." /\ lexeme[d + 1] = "."
            BY <5>2 DEF IInv, DotsRead, HasDots, n
          <6>2. d \in 2 .. Len(lexeme') - 2 /\ d \in 1 .. n /\ d + 1 \in 1 .. n
            BY <4>1, <6>1
          <6> QED
            BY <4>1, <6>1, <6>2 DEF HasDots
        <5> QED
          BY <2>2, <3>1, <5>1, <5>2
      <4> QED
        BY <4>2, <4>3, <4>4 DEF DotsRead
    <3> QED
      BY <3>2, <3>3
  <2> QED
    BY <1>1, <2>1, <2>2
<1>7. ModeInv' /\ mode' \in Modes
  <2>1. next # Start
    BY NextStates DEF next
  <2> QED
    BY <1>1, <1>4, <2>1 DEF ModeInv, Modes
<1>8. HeldIsLast'
  BY <1>2 DEF HeldIsLast
<1>9. start' \in 1 .. Len(input) + 1
  BY <1>3, <1>4
<1> QED
  BY <1>1, <1>2, <1>5, <1>6, <1>7, <1>8, <1>9 DEF IInv

LEMMA LeaveAutomatonInv == IInv /\ LeaveAutomaton => IInv'
<1> SUFFICES ASSUME IInv, LeaveAutomaton PROVE IInv'
  OBVIOUS
<1>1. /\ Available /\ Consume /\ mode = "scan" /\ lexeme' = Append(lexeme, Current)
      /\ state' = Start /\ mode' = "identifier" /\ TokenFor(state) = "IDENT"
      /\ UNCHANGED << input, start, result, errors >>
  BY DEF LeaveAutomaton, Blocked, Steps
<1>2. lexeme # << >>
  BY <1>1, StartToken, ScanMode
<1> QED
  BY <1>1, <1>2, GrowInv

LEMMA RejectInv == IInv /\ Reject => IInv'
<1> SUFFICES ASSUME IInv, Reject PROVE IInv'
  OBVIOUS
<1>1. /\ Available /\ Consume /\ lexeme' = Append(lexeme, Current) /\ lexeme # << >>
      /\ state' = Start /\ mode' = "unknown" /\ UNCHANGED << input, start, result, errors >>
  BY DEF Reject, Blocked, Steps
<1> QED
  BY <1>1, GrowInv

LEMMA AcceptInv == IInv /\ Accept => IInv'
<1> SUFFICES ASSUME IInv, Accept PROVE IInv'
  OBVIOUS
<1> DEFINE type == TokenFor(state)
           r == result \o TokensOf(type, lexeme, start)
<1>1. /\ Available /\ mode = "scan" /\ mode' = "scan" /\ Restart /\ Emit(type, lexeme, start)
      /\ type # "none" /\ input' = input
      /\ IF Current \in Whitespace THEN Consume ELSE LookAgain
  BY DEF Accept, Blocked, Steps, IsAccepting, Restart
<1>2. lexeme # << >>
  BY <1>1, StartToken, ScanMode
<1>3. type \in TokenTypes
  BY <1>1, TokenForType
<1>4. type = "RANGE" => HasDots(lexeme)
  BY RangeState DEF IInv, DotsRead
<1> HIDE DEF type
<1>5. Settled(input, r, Taken)
  BY <1>2, <1>3, <1>4, EmitLexeme
<1>6. result' = r /\ errors' \in Seq(ErrorKinds)
  BY <1>1, ErrorsAppended DEF Emit, IInv
<1> HIDE DEF r
<1>7. Settled(input, r, Taken') /\ read' \in 0 .. Len(input) /\ HeldIsLast'
  BY <1>1, <1>5, EndsAtBlank, EndsLookingAgain
<1> QED
  BY <1>1, <1>6, <1>7, RestartInv

LEMMA RejectCharInv == IInv /\ RejectChar => IInv'
<1> SUFFICES ASSUME IInv, RejectChar PROVE IInv'
  OBVIOUS
<1> DEFINE r == result \o TokensOf("UNKNOWN", << Current >>, Place)
<1>1. /\ Available /\ mode' = "scan" /\ Restart /\ Consume /\ lexeme = << >>
      /\ EmitUnknown(<< Current >>, Place, << >>)
  BY DEF RejectChar, Blocked, Steps
<1>2. Settled(input, r, Place)
  BY <1>1, EmitCurrent
<1>3. result' = r /\ errors' \in Seq(ErrorKinds)
  BY <1>1, ErrorsAppended DEF EmitUnknown, IInv
<1> HIDE DEF r
<1>4. read' \in 0 .. Len(input) /\ held' = << >> /\ Taken' = Place
  BY <1>1, ConsumeEffect
<1> QED
  BY <1>1, <1>2, <1>3, <1>4, RestartInv DEF HeldIsLast

(* An unknown lexeme, whatever is reported before it.                      *)
LEMMA UnknownLexeme ==
  ASSUME IInv, lexeme # << >>
  PROVE  Settled(input, result \o TokensOf("UNKNOWN", lexeme, start), Taken)
BY RangeTypes, EmitLexeme

LEMMA RejectAtBlankInv == IInv /\ RejectAtBlank => IInv'
<1> SUFFICES ASSUME IInv, RejectAtBlank PROVE IInv'
  OBVIOUS
<1> DEFINE r == result \o TokensOf("UNKNOWN", lexeme, start)
<1>1. /\ Available /\ mode' = "scan" /\ Restart /\ Consume /\ lexeme # << >>
      /\ Current \in Whitespace /\ EmitUnknown(lexeme, start, UnclosedQuote(lexeme))
  BY DEF RejectAtBlank, Blocked, Steps
<1>2. Settled(input, r, Taken)
  BY <1>1, UnknownLexeme
<1>3. result' = r /\ errors' \in Seq(ErrorKinds)
  BY <1>1, ErrorsAppended DEF EmitUnknown, IInv
<1> HIDE DEF r
<1>4. Settled(input, r, Taken') /\ read' \in 0 .. Len(input) /\ HeldIsLast'
  BY <1>1, <1>2, EndsAtBlank
<1> QED
  BY <1>1, <1>3, <1>4, RestartInv

LEMMA RejectAtBoundaryInv == IInv /\ RejectAtBoundary => IInv'
<1> SUFFICES ASSUME IInv, RejectAtBoundary PROVE IInv'
  OBVIOUS
<1> DEFINE r == result \o TokensOf("UNKNOWN", lexeme, start)
<1>1. /\ Available /\ mode = "scan" /\ mode' = "scan" /\ Restart /\ LookAgain /\ lexeme # << >>
      /\ EmitUnknown(lexeme, start, << >>) /\ input' = input
  BY DEF RejectAtBoundary, Blocked, Steps, Restart
<1>2. Settled(input, r, Taken)
  BY <1>1, UnknownLexeme
<1>3. result' = r /\ errors' \in Seq(ErrorKinds)
  BY <1>1, ErrorsAppended DEF EmitUnknown, IInv
<1> HIDE DEF r
<1>4. Settled(input, r, Taken') /\ read' \in 0 .. Len(input) /\ HeldIsLast'
  BY <1>1, <1>2, EndsLookingAgain
<1> QED
  BY <1>1, <1>3, <1>4, RestartInv

LEMMA FinishInv == IInv /\ Finish => IInv'
<1> SUFFICES ASSUME IInv, Finish PROVE IInv'
  OBVIOUS
<1>1. /\ AtEnd /\ mode' = "done" /\ Restart /\ UNCHANGED << read, held >> /\ mode = "scan"
      /\ input' = input
  BY DEF Finish, Restart
<1>2. \E r : result' = r /\ Settled(input, r, Taken) /\ errors' \in Seq(ErrorKinds)
  <2>1. CASE lexeme = << >>
    BY <2>1 DEF Finish, IInv, Progress
  <2>2. CASE lexeme # << >> /\ IsFinal(state)
    <3> DEFINE type == TokenFor(state)
    <3>1. Emit(type, lexeme, start)
      BY <2>2 DEF Finish
    <3>2. type \in TokenTypes /\ (type = "RANGE" => HasDots(lexeme))
      BY <2>2, TokenForType, RangeState DEF IsFinal, IInv, DotsRead
    <3> HIDE DEF type
    <3>3. Settled(input, result \o TokensOf(type, lexeme, start), Taken)
      BY <2>2, <3>2, EmitLexeme
    <3> QED
      BY <3>1, <3>3, ErrorsAppended DEF Emit, IInv
  <2>3. CASE lexeme # << >> /\ ~ IsFinal(state)
    <3>1. EmitUnknown(lexeme, start, UnclosedQuote(lexeme))
      BY <2>3 DEF Finish
    <3>2. Settled(input, result \o TokensOf("UNKNOWN", lexeme, start), Taken)
      BY <2>3, UnknownLexeme
    <3> QED
      BY <3>1, <3>2, ErrorsAppended DEF EmitUnknown, IInv
  <2> QED
    BY <2>1, <2>2, <2>3
<1>3. PICK r : result' = r /\ Settled(input, r, Taken) /\ errors' \in Seq(ErrorKinds)
  BY <1>2
<1>4. /\ Settled(input, r, Taken') /\ read' \in 0 .. Len(input) /\ HeldIsLast'
      /\ Taken' = Len(input)
  BY <1>1, <1>3, EndsAtEnd
<1> QED
  BY <1>1, <1>3, <1>4, RestartInv

LEMMA ReadCommentInv == IInv /\ ReadComment => IInv'
<1> SUFFICES ASSUME IInv, ReadComment PROVE IInv'
  OBVIOUS
<1>1. Available /\ Consume /\ mode = "comment" /\ lexeme # << >> /\ state = Start
  BY LoopMode DEF ReadComment
<1>2. CASE CommentEnds(lexeme, Current)
  <2> DEFINE r == result \o TokensOf("COMMENT", Append(lexeme, Current), start)
  <2>1. Emit("COMMENT", Append(lexeme, Current), start) /\ mode' = "scan" /\ Restart
    BY <1>2 DEF ReadComment
  <2>2. Settled(input, r, Place)
    BY <1>1, EmitLonger
  <2>3. result' = r /\ errors' \in Seq(ErrorKinds)
    BY <2>1, ErrorsAppended DEF Emit, IInv
  <2> HIDE DEF r
  <2>4. read' \in 0 .. Len(input) /\ held' = << >> /\ Taken' = Place
    BY <1>1, ConsumeEffect
  <2> QED
    BY <2>1, <2>2, <2>3, <2>4, RestartInv DEF HeldIsLast
<1>3. CASE ~ CommentEnds(lexeme, Current)
  <2>1. lexeme' = Append(lexeme, Current) /\ UNCHANGED << input, start, state, mode, result, errors >>
    BY <1>3 DEF ReadComment
  <2> QED
    BY <1>1, <2>1, GrowInv
<1> QED
  BY <1>2, <1>3

LEMMA UnterminatedCommentInv == IInv /\ UnterminatedComment => IInv'
<1> SUFFICES ASSUME IInv, UnterminatedComment PROVE IInv'
  OBVIOUS
<1> DEFINE r == result \o TokensOf("UNKNOWN", lexeme, start)
<1>1. /\ AtEnd /\ mode' = "done" /\ Restart /\ UNCHANGED << read, held >> /\ lexeme # << >>
      /\ input' = input /\ EmitUnknown(lexeme, start, << "unterminated_comment" >>)
  BY LoopMode DEF UnterminatedComment, Restart
<1>2. Settled(input, r, Taken)
  BY <1>1, UnknownLexeme
<1>3. result' = r /\ errors' \in Seq(ErrorKinds)
  BY <1>1, ErrorsAppended DEF EmitUnknown, IInv
<1> HIDE DEF r
<1>4. /\ Settled(input, r, Taken') /\ read' \in 0 .. Len(input) /\ HeldIsLast'
      /\ Taken' = Len(input)
  BY <1>1, <1>2, EndsAtEnd
<1> QED
  BY <1>1, <1>3, <1>4, RestartInv

LEMMA ReadLoopInv == IInv /\ (ReadIdentifier \/ ReadUnknown) => IInv'
<1> SUFFICES ASSUME IInv, ReadIdentifier \/ ReadUnknown PROVE IInv'
  OBVIOUS
<1>1. /\ Available /\ Consume /\ mode \in {"identifier", "unknown"} /\ lexeme # << >> /\ state = Start
      /\ lexeme' = Append(lexeme, Current)
      /\ UNCHANGED << input, start, state, mode, result, errors >>
  BY LoopMode DEF ReadIdentifier, ReadUnknown
<1> QED
  BY <1>1, GrowInv

LEMMA NotAtEnd == IInv /\ ~ AtEnd => Available
BY InputSeq DEF IInv, AtEnd, Available

LEMMA EndIdentifierInv == IInv /\ EndIdentifier => IInv'
<1> SUFFICES ASSUME IInv, EndIdentifier PROVE IInv'
  OBVIOUS
<1> DEFINE r == result \o TokensOf("IDENT", lexeme, start)
<1>1. /\ mode' = "scan" /\ Restart /\ lexeme # << >> /\ input' = input
      /\ Emit("IDENT", lexeme, start)
      /\ IF AtEnd THEN UNCHANGED << read, held >> ELSE LookAgain
  BY LoopMode DEF EndIdentifier, Restart
<1>2. Settled(input, r, Taken)
  BY <1>1, RangeTypes, EmitLexeme
<1>3. result' = r /\ errors' \in Seq(ErrorKinds)
  BY <1>1, ErrorsAppended DEF Emit, IInv
<1> HIDE DEF r
<1>4. Settled(input, r, Taken') /\ read' \in 0 .. Len(input) /\ HeldIsLast'
  BY <1>1, <1>2, NotAtEnd, EndsAtEnd, EndsLookingAgain
<1> QED
  BY <1>1, <1>3, <1>4, RestartInv

LEMMA EndUnknownInv == IInv /\ EndUnknown => IInv'
<1> SUFFICES ASSUME IInv, EndUnknown PROVE IInv'
  OBVIOUS
<1> DEFINE r == result \o TokensOf("UNKNOWN", lexeme, start)
<1>1. /\ mode' = "scan" /\ Restart /\ lexeme # << >> /\ input' = input
      /\ EmitUnknown(lexeme, start, << >>)
      /\ IF AtEnd THEN UNCHANGED << read, held >>
         ELSE IF Current \in Whitespace THEN Consume ELSE LookAgain
  BY LoopMode DEF EndUnknown, Restart
<1>2. Settled(input, r, Taken)
  BY <1>1, UnknownLexeme
<1>3. result' = r /\ errors' \in Seq(ErrorKinds)
  BY <1>1, ErrorsAppended DEF EmitUnknown, IInv
<1> HIDE DEF r
<1>4. Settled(input, r, Taken') /\ read' \in 0 .. Len(input) /\ HeldIsLast'
  BY <1>1, <1>2, NotAtEnd, EndsAtEnd, EndsLookingAgain, EndsAtBlank
<1> QED
  BY <1>1, <1>3, <1>4, RestartInv

-----------------------------------------------------------------------------
LEMMA InitInv == Init => IInv
<1> SUFFICES ASSUME Init PROVE IInv
  OBVIOUS
<1>1. /\ input \in Seq(Chars) /\ input \in Inputs /\ read = 0 /\ held = << >> /\ lexeme = << >>
      /\ start = 1 /\ state = Start /\ mode = "scan" /\ result = << >> /\ errors = << >>
  BY InputsAssumption DEF Init
<1>2. Len(input) \in Nat
  BY <1>1
<1>a. Len(held) = 0
  BY <1>1
<1>b. read = 0
  BY <1>1
<1>c. \A n : n = 0 => read - n = 0
  BY <1>b
<1>3. Taken = 0
  BY <1>a, <1>c, Zenon DEF Taken
<1>4. result \in Seq(Token) /\ Len(result) = 0 /\ errors \in Seq(ErrorKinds)
  BY <1>1
<1>5. Settled(input, result, 0)
  BY <1>4 DEF Settled, IsOrdered
<1>6. Progress
  BY <1>1, <1>3, <1>5 DEF Progress
<1>7. DotsRead
  BY <1>1 DEF DotsRead, Start, At
<1>8. ModeInv /\ mode \in Modes /\ HeldIsLast
  BY <1>1 DEF ModeInv, Modes, HeldIsLast
<1> QED
  BY <1>1, <1>2, <1>4, <1>6, <1>7, <1>8 DEF IInv

LEMMA StepInv == IInv /\ [Next]_vars => IInv'
<1> SUFFICES ASSUME IInv, [Next]_vars PROVE IInv'
  OBVIOUS
<1>1. CASE Step
  BY <1>1, SkipBlankInv, OpenBraceInv, ExtendInv, LeaveAutomatonInv, AcceptInv, RejectCharInv,
     RejectAtBlankInv, RejectAtBoundaryInv, RejectInv, FinishInv, ReadCommentInv,
     UnterminatedCommentInv, ReadLoopInv, EndIdentifierInv, EndUnknownInv DEF Step
<1>2. CASE UNCHANGED vars
  BY <1>2 DEF vars, IInv, HeldIsLast, Progress, Taken, DotsRead, ModeInv
<1>3. CASE Done
  BY <1>2, <1>3 DEF Done
<1> QED
  BY <1>1, <1>2, <1>3 DEF Next

LEMMA Invariance == Spec => []IInv
BY InitInv, StepInv, PTL DEF Spec

(* Only the character read last is ever put back, and only for the main    *)
(* loop (pending and consume_current of process_next_token).               *)
THEOREM HeldCharacter == Spec => []HeldIsLast
<1>1. IInv => HeldIsLast
  BY DEF IInv
<1> QED
  BY <1>1, Invariance, PTL

(* The lexer's state has its types; in particular, the second part of a    *)
(* range is never cut from a text without dots (write_range_tokens).       *)
THEOREM LexerTypes == Spec => []TypeOK
<1>1. ASSUME IInv PROVE TypeOK
  <2>1. input \in Seq(Chars) /\ lexeme \in Seq(Chars) /\ result \in Seq(Token)
    <3>1. CASE lexeme = << >>
      BY <1>1, <3>1, InputSeq DEF IInv, Progress, Settled
    <3>2. CASE lexeme # << >>
      BY <1>1, <3>2, InputSeq, LexemeText DEF Settled
    <3> QED
      BY <3>1, <3>2
  <2>2. held \in Seq(Chars)
    <3>1. CASE held = << >>
      BY <3>1
    <3>2. CASE held # << >>
      <4>1. read \in 1 .. Len(input) /\ held = << input[read] >>
        BY <1>1, <3>2, <2>1 DEF IInv, HeldIsLast
      <4>2. input[read] \in Chars
        BY <2>1, <4>1, ElementOfSeq
      <4> QED
        BY <4>1, <4>2
    <3> QED
      BY <3>1, <3>2
  <2> QED
    BY <1>1, <2>1, <2>2 DEF IInv, TypeOK
<1> QED
  BY <1>1, Invariance, PTL

(* Every character of the input is in exactly one token, in the lexeme     *)
(* under way, or blank: none is lost or read twice where the loops of the  *)
(* lexer hand characters to each other.                                    *)
THEOREM NoCharacterLost == Spec => []NothingLost
<1>1. ASSUME IInv PROVE NothingLost
  <2>1. Taken \in Nat /\ Len(input) \in Nat
    BY <1>1, TakenRange, InputSeq
  <2>2. CASE lexeme = << >>
    <3>1. Settled(input, result, Taken)
      BY <1>1, <2>2 DEF IInv, Progress
    <3> QED
      BY <1>1, <2>2, <3>1 DEF NothingLost, Settled, IsPiece, IsOrdered, Covers, IInv, ModeInv
  <2>3. CASE lexeme # << >>
    <3>1. /\ start \in 1 .. Len(input) /\ Taken \in start .. Len(input)
          /\ lexeme = SubSeq(input, start, Taken) /\ Settled(input, result, start - 1)
      BY <1>1, <2>3, LexemeText
    <3>2. \A i \in 1 .. Len(result) :
            /\ IsPiece(input, result[i]) /\ result[i].last <= start - 1 /\ result[i].last \in Nat
      BY <3>1, SettledTokens DEF Settled
    <3>3. \A i \in 1 .. Len(result) : result[i].last <= Taken /\ result[i].last < start
      BY <2>1, <3>1, <3>2
    <3>4. \A p \in 1 .. Taken : \/ input[p] \in Whitespace
                                \/ start <= p
                                \/ Covers(result, p)
      <4> SUFFICES ASSUME NEW p \in 1 .. Taken, ~ (start <= p)
                   PROVE  input[p] \in Whitespace \/ Covers(result, p)
        OBVIOUS
      <4>1. p \in 1 .. start - 1
        BY <2>1, <3>1
      <4> QED
        BY <3>1, <4>1 DEF Settled
    <3>5. IsOrdered(result)
      BY <3>1 DEF Settled
    <3>6. mode # "done"
      BY <1>1, <2>3 DEF IInv, ModeInv
    <3> QED
      BY <2>1, <2>3, <3>1, <3>2, <3>3, <3>4, <3>5, <3>6 DEF NothingLost, IsPiece, IsOrdered, Covers
  <2> QED
    BY <2>2, <2>3
<1> QED
  BY <1>1, Invariance, PTL

-----------------------------------------------------------------------------
(* Errors and tokens UNKNOWN.                                              *)

HasUnknown(ts) == \E i \in 1 .. Len(ts) : ts[i].type = "UNKNOWN"

LEMMA UnknownInBoth ==
  ASSUME NEW S, NEW r \in Seq(S), NEW ts \in Seq(S)
  PROVE  HasUnknown(r \o ts) <=> HasUnknown(r) \/ HasUnknown(ts)
<1>1. /\ Len(r) \in Nat /\ Len(ts) \in Nat /\ Len(r \o ts) = Len(r) + Len(ts)
      /\ \A i \in 1 .. Len(r) : (r \o ts)[i] = r[i]
      /\ \A i \in 1 .. Len(ts) : (r \o ts)[Len(r) + i] = ts[i]
  OBVIOUS
<1>2. ASSUME HasUnknown(r \o ts) PROVE HasUnknown(r) \/ HasUnknown(ts)
  <2>1. PICK i \in 1 .. Len(r) + Len(ts) : (r \o ts)[i].type = "UNKNOWN"
    BY <1>1, <1>2 DEF HasUnknown
  <2>2. CASE i <= Len(r)
    BY <1>1, <2>1, <2>2 DEF HasUnknown
  <2>3. CASE i > Len(r)
    <3>1. i - Len(r) \in 1 .. Len(ts) /\ Len(r) + (i - Len(r)) = i
      BY <1>1, <2>1, <2>3
    <3>2. ts[i - Len(r)].type = "UNKNOWN"
      BY <1>1, <2>1, <3>1
    <3> QED
      BY <3>1, <3>2 DEF HasUnknown
  <2> QED
    BY <1>1, <2>2, <2>3
<1>3. ASSUME HasUnknown(r) PROVE HasUnknown(r \o ts)
  BY <1>1, <1>3 DEF HasUnknown
<1>4. ASSUME HasUnknown(ts) PROVE HasUnknown(r \o ts)
  <2>1. PICK i \in 1 .. Len(ts) : ts[i].type = "UNKNOWN"
    BY <1>4 DEF HasUnknown
  <2>2. Len(r) + i \in 1 .. Len(r \o ts) /\ (r \o ts)[Len(r) + i].type = "UNKNOWN"
    BY <1>1, <2>1
  <2> QED
    BY <2>2 DEF HasUnknown
<1> QED
  BY <1>2, <1>3, <1>4

LEMMA TokensUnknown ==
  ASSUME NEW r \in Seq(Token), NEW type, NEW text, NEW at
  PROVE  HasUnknown(r \o TokensOf(type, text, at)) <=> HasUnknown(r) \/ type = "UNKNOWN"
<1> DEFINE ts == TokensOf(type, text, at)
<1>1. HasUnknown(ts) <=> type = "UNKNOWN"
  <2>1. CASE type = "RANGE"
    BY <2>1 DEF TokensOf, RangeTokens, Tok, HasUnknown
  <2>2. CASE type # "RANGE"
    <3>1. ts = << Tok(type, text, at) >> /\ Tok(type, text, at).type = type
      BY <2>2 DEF TokensOf, Tok
    <3> QED
      BY <3>1 DEF HasUnknown
  <2> QED
    BY <2>1, <2>2
<1>2. \E S : r \in Seq(S) /\ ts \in Seq(S)
  <2>1. CASE type = "RANGE"
    <3>1. PICK a, b, c, d : ts = << a, b, c, d >>
      BY <2>1 DEF TokensOf, RangeTokens
    <3>2. r \in Seq(Token \cup {a, b, c, d})
      <4>1. \A i \in 1 .. Len(r) : r[i] \in Token \cup {a, b, c, d}
        BY ElementOfSeq
      <4> QED
        BY <4>1
    <3>3. << a, b, c, d >> \in Seq(Token \cup {a, b, c, d})
      OBVIOUS
    <3> HIDE DEF ts
    <3> QED
      BY <3>1, <3>2, <3>3
  <2>2. CASE type # "RANGE"
    <3>1. PICK a : ts = << a >>
      BY <2>2 DEF TokensOf
    <3>2. r \in Seq(Token \cup {a})
      <4>1. \A i \in 1 .. Len(r) : r[i] \in Token \cup {a}
        BY ElementOfSeq
      <4> QED
        BY <4>1
    <3>3. << a >> \in Seq(Token \cup {a})
      OBVIOUS
    <3> HIDE DEF ts
    <3> QED
      BY <3>1, <3>2, <3>3
  <2> QED
    BY <2>1, <2>2
<1>3. HasUnknown(r \o ts) <=> HasUnknown(r) \/ HasUnknown(ts)
  <2> HIDE DEF ts
  <2> QED
    BY <1>2, UnknownInBoth
<1> QED
  BY <1>1, <1>3

LEMMA Reported ==
  ASSUME TypeOK, ErrorsAreUnknowns, NEW type, NEW text, NEW at, NEW before,
         before \in Seq(ErrorKinds), Emit(type, text, at) \/ EmitUnknown(text, at, before)
  PROVE  ErrorsAreUnknowns'
<1>1. errors \in Seq(ErrorKinds) /\ result \in Seq(Token)
  BY DEF TypeOK
<1>2. errors # << >> <=> HasUnknown(result)
  BY DEF ErrorsAreUnknowns, HasUnknown
<1>3. CASE Emit(type, text, at)
  <2>1. HasUnknown(result') <=> HasUnknown(result) \/ type = "UNKNOWN"
    BY <1>1, <1>3, TokensUnknown DEF Emit
  <2>2. errors' # << >> <=> errors # << >> \/ type = "UNKNOWN"
    BY <1>1, <1>3 DEF Emit
  <2> QED
    BY <1>2, <2>1, <2>2 DEF ErrorsAreUnknowns, HasUnknown
<1>4. CASE EmitUnknown(text, at, before)
  <2>1. HasUnknown(result')
    BY <1>1, <1>4, TokensUnknown DEF EmitUnknown
  <2>2. "invalid_token" \in ErrorKinds
    BY DEF ErrorKinds
  <2>3. errors' # << >>
    BY <1>1, <1>4, <2>2 DEF EmitUnknown
  <2> QED
    BY <2>1, <2>3 DEF ErrorsAreUnknowns, HasUnknown
<1> QED
  BY <1>3, <1>4

(* A lexer that reports an error has written a token UNKNOWN, and the      *)
(* other way round: whether main.cpp asks hasErrors or looks through a     *)
(* token file, it stops at the same inputs.                                *)
THEOREM ErrorsWritten == Spec => []ErrorsAreUnknowns
<1>1. Init => ErrorsAreUnknowns
  BY DEF Init, ErrorsAreUnknowns
<1>2. TypeOK /\ ErrorsAreUnknowns /\ [Next]_vars => ErrorsAreUnknowns'
  <2> SUFFICES ASSUME TypeOK, ErrorsAreUnknowns, [Next]_vars PROVE ErrorsAreUnknowns'
    OBVIOUS
  <2>1. /\ << >> \in Seq(ErrorKinds) /\ << "unterminated_comment" >> \in Seq(ErrorKinds)
        /\ UnclosedQuote(lexeme) \in Seq(ErrorKinds)
    <3>1. "unclosed_quote" \in ErrorKinds /\ "unterminated_comment" \in ErrorKinds
      BY DEF ErrorKinds
    <3> QED
      BY <3>1 DEF UnclosedQuote
  <2>2. ASSUME UNCHANGED << result, errors >> PROVE ErrorsAreUnknowns'
    BY <2>2 DEF ErrorsAreUnknowns
  <2>3. ASSUME \/ SkipBlank \/ OpenBrace \/ Extend \/ LeaveAutomaton \/ Reject
               \/ ReadIdentifier \/ ReadUnknown \/ Done \/ UNCHANGED vars
        PROVE  ErrorsAreUnknowns'
    BY <2>2, <2>3 DEF SkipBlank, OpenBrace, Extend, LeaveAutomaton, Reject, ReadIdentifier,
       ReadUnknown, Done, vars
  <2>4. CASE Accept
    BY <2>1, <2>4, Reported DEF Accept
  <2>5. CASE RejectChar
    BY <2>1, <2>5, Reported DEF RejectChar
  <2>6. CASE RejectAtBlank
    BY <2>1, <2>6, Reported DEF RejectAtBlank
  <2>7. CASE RejectAtBoundary
    BY <2>1, <2>7, Reported DEF RejectAtBoundary
  <2>8. CASE Finish
    BY <2>1, <2>2, <2>8, Reported DEF Finish
  <2>9. CASE ReadComment
    BY <2>1, <2>2, <2>9, Reported DEF ReadComment
  <2>10. CASE UnterminatedComment
    BY <2>1, <2>10, Reported DEF UnterminatedComment
  <2>11. CASE EndIdentifier
    BY <2>1, <2>11, Reported DEF EndIdentifier
  <2>12. CASE EndUnknown
    BY <2>1, <2>12, Reported DEF EndUnknown
  <2> QED
    BY <2>3, <2>4, <2>5, <2>6, <2>7, <2>8, <2>9, <2>10, <2>11, <2>12 DEF Next, Step
<1> QED
  BY <1>1, <1>2, LexerTypes, PTL DEF Spec
=============================================================================
