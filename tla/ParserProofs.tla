----------------------------- MODULE ParserProofs -----------------------------
(***************************************************************************)
(* The parser of any table of rules derives what it consumes: proved for   *)
(* every table and every sequence of tokens.  The invariant is that the    *)
(* consumed tokens are terminals and the rest of the form is todo, so that *)
(* the head of todo is the leftmost nonterminal of the form whenever a     *)
(* rule is predicted.                                                      *)
(*                                                                         *)
(* The tree of what is accepted spells the tokens.  The invariant is that  *)
(* the children of the nodes under construction, the outermost first,      *)
(* spell the consumed tokens; it needs that a rule that takes a node finds *)
(* one (NestInv).  What a node spells is a function on a set of nodes that *)
(* grows with the tree, so that no recursion over trees is needed until    *)
(* LeavesYield, which meets the recursive definition of Leaves.            *)
(***************************************************************************)
EXTENDS Parser, Induction, SequenceTheorems, TLAPS

LEMMA SymbolsSplit ==
  /\ Terminals \subseteq Symbols /\ Rules \subseteq Symbols
  /\ \A x \in Terminals : x \notin Rules
BY TableAssumption DEF Symbols

(* The next token, when there is one that matches.                         *)
LEMMA MatchedToken ==
  ASSUME tokens \in Seq(Terminals), pos \in 0 .. Len(tokens), NEW x \in Terminals,
         TypeAt(pos + 1) = x
  PROVE  pos + 1 \in 1 .. Len(tokens) /\ tokens[pos + 1] = x
<1>1. pos + 1 <= Len(tokens)
  BY TableAssumption DEF TypeAt
<1> QED
  BY <1>1 DEF TypeAt

LEMMA TypeInit == ParserInit => ParserTypeOK
<1> SUFFICES ASSUME ParserInit PROVE ParserTypeOK
  OBVIOUS
<1>1. tokens \in Seq(Terminals)
  BY InputsAssumption DEF ParserInit
<1>2. Goal \in Symbols
  BY SymbolsSplit, TableAssumption
<1> QED
  BY <1>1, <1>2 DEF ParserInit, ParserStart, ParserTypeOK

LEMMA TypeStep == ParserTypeOK /\ [ParserStep \/ Stopped]_parserVars => ParserTypeOK'
<1> SUFFICES ASSUME ParserTypeOK, [ParserStep \/ Stopped]_parserVars PROVE ParserTypeOK'
  OBVIOUS
<1> USE DEF ParserTypeOK
<1>1. CASE Return
  BY <1>1 DEF Return
<1>2. CASE Predict
  <2>1. PICK k \in DOMAIN Table[Head(todo)] : todo' = Table[Head(todo)][k].body \o Tail(todo)
    BY <1>2 DEF Predict
  <2>2. Table[Head(todo)][k].body \in Seq(Symbols)
    BY <1>2, TableAssumption DEF Predict
  <2>3. Tail(todo) \in Seq(Symbols)
    BY <1>2, HeadTailProperties DEF Predict
  <2>4. todo' \in Seq(Symbols)
    BY <2>1, <2>2, <2>3, ConcatProperties
  <2> QED
    BY <1>2, <2>4 DEF Predict
<1>3. CASE Match
  <2>1. Head(todo) \in Symbols /\ Tail(todo) \in Seq(Symbols)
    BY <1>3, HeadTailProperties DEF Match
  <2>2. Head(todo) \in Terminals
    BY <1>3, <2>1 DEF Match, Symbols
  <2>3. pos + 1 \in 1 .. Len(tokens)
    BY <1>3, <2>2, MatchedToken DEF Match
  <2> QED
    BY <1>3, <2>1, <2>3 DEF Match
<1>4. CASE Throw
  BY <1>4 DEF Throw
<1>5. CASE Finish
  BY <1>5 DEF Finish
<1>6. CASE Stopped \/ UNCHANGED parserVars
  BY <1>6 DEF Stopped, parserVars
<1> QED
  BY <1>1, <1>2, <1>3, <1>4, <1>5, <1>6 DEF ParserStep

(* The parser never reads past its tokens, and todo holds symbols only     *)
(* (current, advance, expect in parser.cpp).                               *)
THEOREM ParserTypes == ParserSpec => []ParserTypeOK
BY TypeInit, TypeStep, PTL DEF ParserSpec

-----------------------------------------------------------------------------
(* The form before and after a step.                                       *)

LEMMA ConsumedType ==
  ASSUME ParserTypeOK
  PROVE  /\ Consumed \in Seq(Terminals) /\ Consumed \in Seq(Symbols)
         /\ Len(Consumed) = pos
         /\ \A n \in 1 .. pos : Consumed[n] \in Terminals
<1>1. \A n \in 1 .. pos : tokens[n] \in Terminals
  BY DEF ParserTypeOK
<1>2. Consumed \in Seq(Terminals) /\ Len(Consumed) = pos
  BY <1>1, SubSeqProperties DEF ParserTypeOK, Consumed
<1>3. Consumed \in Seq(Symbols)
  BY <1>2, SymbolsSplit, SeqMonotonic
<1> QED
  BY <1>2, <1>3, ElementOfSeq

(* Moving a symbol from the front of one sequence to the end of another.   *)
LEMMA MoveHead ==
  ASSUME NEW S, NEW s \in Seq(S), NEW t \in Seq(S), t # << >>
  PROVE  (s \o << Head(t) >>) \o Tail(t) = s \o t
<1>1. Head(t) \in S /\ Tail(t) \in Seq(S) /\ << Head(t) >> \in Seq(S)
  BY HeadTailProperties
<1>2. << Head(t) >> \o Tail(t) = t
  <2> DEFINE u == << Head(t) >> \o Tail(t)
  <2>1. u \in Seq(S) /\ Len(u) = Len(t) /\ \A i \in 1 .. Len(t) : u[i] = t[i]
    BY <1>1, HeadTailProperties, ConcatProperties
  <2> QED
    BY <2>1, SeqEqual
<1> QED
  BY <1>1, <1>2, ConcatAssociative

(* The parts of a form before and behind its leftmost nonterminal.         *)
LEMMA SplitAt ==
  ASSUME NEW S, NEW s \in Seq(S), NEW t \in Seq(S), t # << >>
  PROVE  LET n == Len(s) + 1
             f == s \o t
         IN  /\ f[n] = Head(t)
             /\ n \in 1 .. Len(f)
             /\ \A m \in 1 .. n - 1 : f[m] = s[m]
             /\ SubSeq(f, 1, n - 1) = s
             /\ SubSeq(f, n + 1, Len(f)) = Tail(t)
<1> DEFINE n == Len(s) + 1
           f == s \o t
<1>1. f \in Seq(S) /\ Len(f) = Len(s) + Len(t)
      /\ \A i \in 1 .. Len(f) : f[i] = IF i <= Len(s) THEN s[i] ELSE t[i - Len(s)]
  BY ConcatProperties
<1>2. Len(t) \in Nat \ {0} /\ Len(s) \in Nat /\ n \in 1 .. Len(f)
  BY <1>1
<1>3. f[n] = Head(t) /\ \A m \in 1 .. n - 1 : f[m] = s[m]
  BY <1>1, <1>2
<1>4. SubSeq(f, 1, n - 1) = s
  <2> DEFINE g == SubSeq(f, 1, n - 1)
  <2>0. \A i \in 1 .. n - 1 : f[i] \in S
    BY <1>1, <1>2, ElementOfSeq
  <2>1. g \in Seq(S) /\ Len(g) = Len(s) /\ \A i \in 1 .. Len(s) : g[i] = f[i]
    <3> HIDE DEF f
    <3> QED
      BY <2>0, <1>2, SubSeqProperties
  <2> HIDE DEF f, g
  <2>2. \A i \in 1 .. Len(s) : g[i] = s[i]
    BY <2>1, <1>1, <1>2
  <2> QED
    BY <2>1, <2>2, SeqEqual DEF g
<1>5. SubSeq(f, n + 1, Len(f)) = Tail(t)
  <2> DEFINE g == SubSeq(f, n + 1, Len(f))
  <2>0. \A i \in n + 1 .. Len(f) : f[i] \in S
    BY <1>1, <1>2, ElementOfSeq
  <2>1. /\ g \in Seq(S) /\ Len(g) = Len(t) - 1
        /\ \A i \in 1 .. Len(t) - 1 : g[i] = f[n + i]
    <3> HIDE DEF f
    <3>1. /\ n + 1 \in Int /\ Len(f) \in Int
          /\ (IF n + 1 <= Len(f) THEN Len(f) - (n + 1) + 1 ELSE 0) = Len(t) - 1
          /\ Len(f) - (n + 1) + 1 = Len(t) - 1
      <4>1. Len(f) = Len(s) + Len(t)
        BY <1>1
      <4> DEFINE a == Len(s)
                 b == Len(t)
                 c == Len(f)
      <4>2. a \in Nat /\ b \in Nat \ {0} /\ c = a + b /\ n = a + 1
        BY <4>1, <1>2
      <4> HIDE DEF a, b, c
      <4>3. /\ n + 1 \in Int /\ c \in Int
            /\ (IF n + 1 <= c THEN c - (n + 1) + 1 ELSE 0) = b - 1
            /\ c - (n + 1) + 1 = b - 1
        BY <4>2
      <4> QED
        BY <4>3 DEF b, c
    <3>2. \A i \in 1 .. Len(t) - 1 : n + 1 + i - 1 = n + i
      BY <1>2
    <3> QED
      BY <2>0, <3>1, <3>2, SubSeqProperties
  <2>2. Tail(t) \in Seq(S) /\ Len(Tail(t)) = Len(t) - 1
        /\ \A i \in 1 .. Len(t) - 1 : Tail(t)[i] = t[i + 1]
    BY HeadTailProperties
  <2> HIDE DEF f, g
  <2>3. \A i \in 1 .. Len(t) - 1 : g[i] = Tail(t)[i]
    <3> SUFFICES ASSUME NEW i \in 1 .. Len(t) - 1 PROVE g[i] = Tail(t)[i]
      OBVIOUS
    <3>1. g[i] = f[n + i] /\ Tail(t)[i] = t[i + 1]
      BY <2>1, <2>2
    <3>2. n + i \in 1 .. Len(f) /\ ~ (n + i <= Len(s)) /\ n + i - Len(s) = i + 1
      <4>1. Len(f) = Len(s) + Len(t)
        BY <1>1
      <4> QED
        BY <4>1, <1>2
    <3>3. f[n + i] = t[n + i - Len(s)]
      BY <1>1, <3>2
    <3> QED
      BY <3>1, <3>2, <3>3
  <2> QED
    BY <2>1, <2>2, <2>3, SeqEqual DEF g
<1> QED
  BY <1>2, <1>3, <1>4, <1>5

-----------------------------------------------------------------------------
(* Every step of the parser is a derivation step or leaves the form alone. *)

LEMMA RefineInit == ParserInit => Derivation!Init
<1> SUFFICES ASSUME ParserInit PROVE Consumed \o todo = << Goal >>
  BY DEF Derivation!Init
<1>1. pos = 0 /\ todo = << Goal >>
  BY DEF ParserInit, ParserStart
<1>2. Consumed = << >>
  BY <1>1, SubSeqEmpty DEF Consumed
<1>3. << Goal >> \in Seq(Symbols)
  BY SymbolsSplit, TableAssumption
<1> QED
  BY <1>1, <1>2, <1>3, ConcatEmptySeq

LEMMA RefinePredict ==
  ASSUME ParserTypeOK, Predict
  PROVE  Derivation!Next
<1> DEFINE form == Consumed \o todo
           Bodies == [r \in Rules |-> {Table[r][k].body : k \in DOMAIN Table[r]}]
           n == Len(Consumed) + 1
<1>1. todo \in Seq(Symbols) /\ todo # << >> /\ Head(todo) \in Rules /\ pos \in Nat
  BY DEF Predict, ParserTypeOK
<1>2. PICK k \in DOMAIN Table[Head(todo)] : todo' = Table[Head(todo)][k].body \o Tail(todo)
  BY DEF Predict
<1> DEFINE body == Table[Head(todo)][k].body
<1>3. body \in Seq(Symbols) /\ body \in Bodies[Head(todo)]
  BY <1>1, TableAssumption
<1>4. Consumed' = Consumed
  BY DEF Predict, Consumed
<1>5. n = pos + 1 /\ n - 1 = pos /\ Consumed \in Seq(Symbols)
      /\ \A m \in 1 .. n - 1 : Consumed[m] \in Terminals
  BY <1>1, ConsumedType
<1>6. /\ form[n] = Head(todo)
      /\ n \in 1 .. Len(form)
      /\ \A m \in 1 .. n - 1 : form[m] = Consumed[m]
      /\ SubSeq(form, 1, n - 1) = Consumed
      /\ SubSeq(form, n + 1, Len(form)) = Tail(todo)
  <2> HIDE DEF body
  <2>1. Consumed \in Seq(Symbols) /\ todo \in Seq(Symbols) /\ todo # << >>
    BY <1>1, <1>5
  <2> QED
    BY <2>1, SplitAt
<1>7. form' = SubSeq(form, 1, n - 1) \o body \o SubSeq(form, n + 1, Len(form))
  <2>1. form' = Consumed \o (body \o Tail(todo))
    BY <1>2, <1>4
  <2>2. Consumed \o (body \o Tail(todo)) = Consumed \o body \o Tail(todo)
    <3> HIDE DEF form, n, body
    <3>1. Tail(todo) \in Seq(Symbols)
      BY <1>1, HeadTailProperties
    <3>2. Consumed \in Seq(Symbols) /\ body \in Seq(Symbols)
      BY <1>3, <1>5
    <3> QED
      BY <3>1, <3>2, ConcatAssociative
  <2> HIDE DEF body, form, n
  <2> QED
    BY <2>1, <2>2, <1>6
<1>8. form[n] \in DOMAIN Bodies /\ \A m \in 1 .. n - 1 : form[m] \notin DOMAIN Bodies
  BY <1>1, <1>5, <1>6, SymbolsSplit
<1>9. Derivation!Derive(n, body)
  BY <1>7, <1>8 DEF Derivation!Derive, Derivation!IsNonTerminal
<1>10. body \in Bodies[form[n]]
  BY <1>3, <1>6
<1> QED
  BY <1>6, <1>8, <1>9, <1>10 DEF Derivation!Next, Derivation!IsNonTerminal

LEMMA RefineMatch ==
  ASSUME ParserTypeOK, Match
  PROVE  (Consumed \o todo)' = Consumed \o todo
<1>1. todo \in Seq(Symbols) /\ todo # << >> /\ Head(todo) \in Terminals
  <2>1. todo \in Seq(Symbols) /\ todo # << >>
    BY DEF Match, ParserTypeOK
  <2>2. Head(todo) \in Symbols
    BY <2>1, HeadTailProperties
  <2> QED
    BY <2>1, <2>2 DEF Match, Symbols
<1>2. pos + 1 \in 1 .. Len(tokens) /\ tokens[pos + 1] = Head(todo)
  BY <1>1, MatchedToken DEF Match, ParserTypeOK
<1>3. Consumed' = Consumed \o << Head(todo) >>
  <2>1. Consumed' = SubSeq(tokens, 1, pos + 1)
    BY DEF Match, Consumed
  <2>2. pos + 1 \in 1 .. Len(tokens) /\ 1 \in 1 .. Len(tokens) /\ (pos + 1) - 1 = pos
    BY <1>2 DEF ParserTypeOK
  <2>3. \A m \in 1 .. Len(tokens) : SubSeq(tokens, 1, m) = SubSeq(tokens, 1, m - 1) \o << tokens[m] >>
    BY <2>2, SubSeqRecursiveSecond DEF ParserTypeOK
  <2>4. SubSeq(tokens, 1, pos + 1) = SubSeq(tokens, 1, pos) \o << tokens[pos + 1] >>
    BY <2>2, <2>3
  <2> QED
    BY <2>1, <2>4, <1>2, Zenon DEF Consumed
<1>4. todo' = Tail(todo)
  BY DEF Match
<1> QED
  BY <1>1, <1>3, <1>4, ConsumedType, MoveHead

LEMMA RefineStep ==
  ParserTypeOK /\ [ParserStep \/ Stopped]_parserVars => [Derivation!Next]_(Consumed \o todo)
<1> SUFFICES ASSUME ParserTypeOK, [ParserStep \/ Stopped]_parserVars
             PROVE  [Derivation!Next]_(Consumed \o todo)
  OBVIOUS
<1>1. CASE Predict
  BY <1>1, RefinePredict
<1>2. CASE Match
  BY <1>2, RefineMatch
<1>3. CASE Return \/ Throw \/ Finish \/ Stopped \/ UNCHANGED parserVars
  <2>1. tokens' = tokens /\ pos' = pos /\ todo' = todo
    BY <1>3 DEF Return, Throw, Finish, Stopped, parserVars
  <2> QED
    BY <2>1 DEF Consumed
<1> QED
  BY <1>1, <1>2, <1>3 DEF ParserStep

(* The parser implements the grammar: what it has consumed, followed by    *)
(* what it is still to read, is derived by the rules alone, whatever the   *)
(* look-ahead of the parse functions.                                      *)
THEOREM ParserDerives == ParserSpec => DerivesTokens
<1>1. ParserTypeOK /\ [ParserStep \/ Stopped]_parserVars => [Derivation!Next]_(Consumed \o todo)
  BY RefineStep
<1> QED
  BY <1>1, RefineInit, ParserTypes, PTL DEF ParserSpec, DerivesTokens, Derivation!Spec

-----------------------------------------------------------------------------
(* Nodes as a set: V is what each spells, and R its age, by which children *)
(* are older than their parents.                                           *)

Yield(V, nodes) == FlattenSeq([k \in DOMAIN nodes |-> V[nodes[k]]])

Spelled(V, node) == IF node.at > 0 THEN << node.at >> ELSE Yield(V, node.children)

IsSpelling(S, V, R, b) ==
  /\ Nothing \in S
  /\ V \in [S -> Seq(Nat)] /\ b \in Nat /\ R \in [S -> 0 .. b - 1]
  /\ \A x \in S : /\ x.at \in Nat /\ x.children \in Seq(S)
                  /\ V[x] = Spelled(V, x)
                  /\ \A k \in DOMAIN x.children : R[x.children[k]] < R[x]

(* What nodes spell does not depend on the nodes beside them.              *)
LEMMA YieldType ==
  ASSUME NEW S, NEW V \in [S -> Seq(Nat)], NEW nodes \in Seq(S)
  PROVE  /\ Yield(V, nodes) \in Seq(Nat)
         /\ [k \in DOMAIN nodes |-> V[nodes[k]]] \in Seq(Seq(Nat))
<1> DEFINE seqs == [k \in DOMAIN nodes |-> V[nodes[k]]]
<1>1. DOMAIN nodes = 1 .. Len(nodes) /\ Len(nodes) \in Nat
  OBVIOUS
<1>2. \A k \in 1 .. Len(nodes) : V[nodes[k]] \in Seq(Nat)
  <2>1. \A k \in 1 .. Len(nodes) : nodes[k] \in S
    BY ElementOfSeq
  <2> QED
    BY <2>1
<1>3. seqs \in [1 .. Len(nodes) -> Seq(Nat)]
  BY <1>1, <1>2
<1>4. seqs \in Seq(Seq(Nat))
  <2> DEFINE n == Len(nodes)
             X == Seq(Nat)
  <2>1. n \in Nat /\ seqs \in [1 .. n -> X]
    BY <1>1, <1>3
  <2> HIDE DEF seqs, n, X
  <2>2. seqs \in Seq(X)
    BY <2>1
  <2> QED
    BY <2>2 DEF X
<1> QED
  BY <1>4, FlattenType DEF Yield

LEMMA YieldEmpty == ASSUME NEW V PROVE Yield(V, << >>) = << >>
<1> DEFINE seqs == [k \in DOMAIN << >> |-> V[<< >>[k]]]
<1>1. seqs = << >>
  OBVIOUS
<1> HIDE DEF seqs
<1>2. FlattenSeq(seqs) = << >>
  BY <1>1 DEF FlattenSeq
<1> QED
  BY <1>2 DEF Yield, seqs

LEMMA YieldAppend ==
  ASSUME NEW S, NEW V \in [S -> Seq(Nat)], NEW nodes \in Seq(S), NEW x \in S
  PROVE  Yield(V, Append(nodes, x)) = Yield(V, nodes) \o V[x]
<1> DEFINE more == Append(nodes, x)
           seqs == [k \in DOMAIN nodes |-> V[nodes[k]]]
           all == [k \in DOMAIN more |-> V[more[k]]]
<1>1. /\ more \in Seq(S) /\ Len(more) = Len(nodes) + 1 /\ more[Len(nodes) + 1] = x
      /\ \A k \in 1 .. Len(nodes) : more[k] = nodes[k]
  BY AppendProperties
<1> HIDE DEF more
<1>2. /\ seqs \in Seq(Seq(Nat)) /\ Len(seqs) = Len(nodes) /\ V[x] \in Seq(Nat)
      /\ all \in Seq(Seq(Nat)) /\ Len(all) = Len(nodes) + 1
      /\ \A k \in 1 .. Len(nodes) : seqs[k] = V[nodes[k]]
      /\ \A k \in 1 .. Len(nodes) + 1 : all[k] = V[more[k]]
  <2>1. DOMAIN nodes = 1 .. Len(nodes) /\ DOMAIN more = 1 .. Len(nodes) + 1 /\ Len(nodes) \in Nat
    BY <1>1
  <2>2. seqs \in Seq(Seq(Nat)) /\ all \in Seq(Seq(Nat))
    <3>1. seqs \in Seq(Seq(Nat))
      BY YieldType
    <3>2. all \in Seq(Seq(Nat))
      BY <1>1, YieldType
    <3> QED
      BY <3>1, <3>2
  <2>3. DOMAIN seqs = DOMAIN nodes /\ DOMAIN all = DOMAIN more
    OBVIOUS
  <2>4. Len(seqs) = Len(nodes) /\ Len(all) = Len(nodes) + 1
    <3> HIDE DEF seqs, all
    <3> QED
      BY <2>1, <2>2, <2>3
  <2> QED
    BY <2>1, <2>2, <2>4
<1> HIDE DEF seqs, all
<1>3. all = Append(seqs, V[x])
  <2> DEFINE t == Append(seqs, V[x])
  <2>1. /\ t \in Seq(Seq(Nat)) /\ Len(t) = Len(nodes) + 1 /\ t[Len(nodes) + 1] = V[x]
        /\ \A k \in 1 .. Len(nodes) : t[k] = seqs[k]
    BY <1>2, AppendProperties
  <2> HIDE DEF t
  <2>2. ASSUME NEW k \in 1 .. Len(nodes) + 1 PROVE all[k] = t[k]
    <3>1. all[k] = V[more[k]]
      BY <1>2
    <3>2. CASE k = Len(nodes) + 1
      BY <1>1, <2>1, <3>1, <3>2
    <3>3. CASE k # Len(nodes) + 1
      <4>1. k \in 1 .. Len(nodes)
        BY <3>3
      <4> QED
        BY <1>1, <1>2, <2>1, <3>1, <4>1
    <3> QED
      BY <3>2, <3>3
  <2> QED
    BY <1>2, <2>1, <2>2, SeqEqual DEF t
<1>4. FlattenSeq(all) = FlattenSeq(seqs) \o V[x]
  BY <1>2, <1>3, FlattenAppend
<1> QED
  BY <1>4 DEF Yield, all, seqs, more

LEMMA YieldSame ==
  ASSUME NEW S, NEW V, NEW W, \A x \in S : W[x] = V[x], NEW nodes \in Seq(S)
  PROVE  Yield(W, nodes) = Yield(V, nodes)
<1>1. \A k \in DOMAIN nodes : nodes[k] \in S
  BY ElementOfSeq
<1>2. [k \in DOMAIN nodes |-> W[nodes[k]]] = [k \in DOMAIN nodes |-> V[nodes[k]]]
  BY <1>1
<1> QED
  BY <1>2 DEF Yield

(* A node more, of children there are.                                     *)
Extends(S, V, x, T, W) ==
  /\ S \subseteq T /\ x \in T
  /\ W \in [T -> Seq(Nat)] /\ \A y \in S : W[y] = V[y]
  /\ W[x] = Spelled(V, x)

HasMore(S, V, x) ==
  \E T, W, Q : \E c \in Nat : IsSpelling(T, W, Q, c) /\ Extends(S, V, x, T, W)

LEMMA NewNode ==
  ASSUME NEW S, NEW V, NEW R, NEW b, IsSpelling(S, V, R, b),
         NEW x, x.at \in Nat, x.children \in Seq(S)
  PROVE  HasMore(S, V, x)
<1>1. CASE x \in S
  <2>1. Extends(S, V, x, S, V)
    BY <1>1 DEF Extends, IsSpelling
  <2> QED
    BY <2>1 DEF HasMore, IsSpelling
<1>2. CASE x \notin S
  <2> DEFINE T == S \cup {x}
             w == Spelled(V, x)
             W == [y \in T |-> IF y = x THEN w ELSE V[y]]
             Q == [y \in T |-> IF y = x THEN b ELSE R[y]]
  <2>1. V \in [S -> Seq(Nat)] /\ b \in Nat /\ R \in [S -> 0 .. b - 1]
    BY DEF IsSpelling
  <2>2. w \in Seq(Nat)
    <3>1. Yield(V, x.children) \in Seq(Nat)
      BY <2>1, YieldType
    <3>2. << x.at >> \in Seq(Nat)
      OBVIOUS
    <3> QED
      BY <3>1, <3>2 DEF Spelled
  <2> HIDE DEF w
  <2>3. W \in [T -> Seq(Nat)] /\ Q \in [T -> 0 .. (b + 1) - 1] /\ b + 1 \in Nat
    BY <2>1, <2>2
  <2>4. W[x] = w /\ \A y \in S : W[y] = V[y] /\ Q[y] = R[y]
    BY <1>2
  <2>5. Q[x] = b
    OBVIOUS
  <2>6. \A nodes \in Seq(S) : nodes \in Seq(T) /\ Yield(W, nodes) = Yield(V, nodes)
    <3> HIDE DEF W
    <3>1. S \subseteq T
      OBVIOUS
    <3> HIDE DEF T
    <3> SUFFICES ASSUME NEW nodes \in Seq(S)
                 PROVE  nodes \in Seq(T) /\ Yield(W, nodes) = Yield(V, nodes)
      OBVIOUS
    <3>2. \A y \in S : W[y] = V[y]
      BY <2>4
    <3>3. Yield(W, nodes) = Yield(V, nodes)
      <4>1. nodes \in Seq(S)
        OBVIOUS
      <4> QED
        BY ONLY <3>2, <4>1, YieldSame
    <3> QED
      BY <3>1, <3>3, SeqMonotonic
  <2> HIDE DEF W, Q
  <2>7. ASSUME NEW y \in T
        PROVE  /\ y.at \in Nat /\ y.children \in Seq(T)
               /\ W[y] = Spelled(W, y)
               /\ \A k \in DOMAIN y.children : Q[y.children[k]] < Q[y]
    <3>1. y.at \in Nat /\ y.children \in Seq(S)
      BY DEF IsSpelling
    <3>2. \A k \in DOMAIN y.children : y.children[k] \in S
      BY <3>1, ElementOfSeq
    <3>3. Spelled(W, y) = Spelled(V, y)
      BY <2>6, <3>1 DEF Spelled
    <3>4. CASE y = x
      <4>1. W[y] = Spelled(W, y)
        BY <2>4, <3>3, <3>4 DEF w
      <4>2. ASSUME NEW k \in DOMAIN y.children PROVE Q[y.children[k]] < Q[y]
        <5>1. Q[y.children[k]] = R[y.children[k]] /\ R[y.children[k]] \in 0 .. b - 1
          BY <2>1, <2>4, <3>2
        <5> QED
          BY <2>1, <2>5, <3>4, <5>1
      <4> QED
        BY <2>6, <3>1, <4>1, <4>2
    <3>5. CASE y \in S
      <4>1. W[y] = Spelled(W, y)
        BY <2>4, <3>3, <3>5 DEF IsSpelling
      <4>2. ASSUME NEW k \in DOMAIN y.children PROVE Q[y.children[k]] < Q[y]
        <5>1. R[y.children[k]] < R[y]
          BY <3>5 DEF IsSpelling
        <5> QED
          BY <2>4, <3>2, <3>5, <5>1
      <4> QED
        BY <2>6, <3>1, <4>1, <4>2
    <3> QED
      BY <3>4, <3>5
  <2>8. IsSpelling(T, W, Q, b + 1)
    <3>1. Nothing \in T
      BY DEF IsSpelling
    <3> HIDE DEF T
    <3> QED
      BY <2>3, <2>7, <3>1 DEF IsSpelling
  <2>9. Extends(S, V, x, T, W)
    BY <2>3, <2>4 DEF Extends, w
  <2> QED
    BY <2>3, <2>8, <2>9 DEF HasMore
<1> QED
  BY <1>1, <1>2

-----------------------------------------------------------------------------
(* The walk down a path, and what Leaves finds at the end of it.           *)

GoesDown(root, path, g) ==
  g = [n \in 0 .. Len(path) |-> IF n = 0 THEN root ELSE NthChild(g[n - 1], path[n])]

LEMMA ChildType ==
  ASSUME NEW S, NEW V, NEW R, NEW b, IsSpelling(S, V, R, b), NEW x \in S, NEW k
  PROVE  NthChild(x, k) \in S
<1>1. x.children \in Seq(S) /\ Nothing \in S
  BY DEF IsSpelling
<1>2. k \in DOMAIN x.children => x.children[k] \in S
  BY <1>1, ElementOfSeq
<1> QED
  BY <1>1, <1>2 DEF NthChild

Downs(S, root, path, g) ==
  /\ g[0] = root
  /\ \A n \in 1 .. Len(path) : g[n] = NthChild(g[n - 1], path[n])
  /\ \A n \in 0 .. Len(path) : g[n] \in S
  /\ At(root, path) = g[Len(path)]

LEMMA AtDef ==
  ASSUME NEW S, NEW V, NEW R, NEW b, IsSpelling(S, V, R, b), NEW root \in S, NEW path \in Seq(Nat)
  PROVE  \E g : Downs(S, root, path, g)
<1> DEFINE m == Len(path)
           step == [n \in 1 .. m |-> [x \in S |-> NthChild(x, path[n])]]
           g == CHOOSE f : GoesDown(root, path, f)
<1>1. m \in Nat
  OBVIOUS
<1>2. \A n \in 1 .. m, x \in S : NthChild(x, path[n]) \in S /\ step[n][x] = NthChild(x, path[n])
  BY ChildType
<1>3. step \in [1 .. m -> [S -> S]]
  BY <1>2
<1>4. \E f \in [0 .. m -> S] : GoesDown(root, path, f)
  <2> HIDE DEF step, m
  <2>1. PICK f \in [0 .. m -> S] : Unfolds(f, m, root, step)
    BY <1>1, <1>3, UnfoldingExists DEF CanUnfold
  <2>2. f = [n \in 0 .. m |-> f[n]]
    BY <2>1
  <2>3. \A n \in 0 .. m : f[n] = IF n = 0 THEN root ELSE step[n][f[n - 1]]
    BY <2>1 DEF Unfolds
  <2>4. ASSUME NEW n \in 0 .. m, n # 0 PROVE step[n][f[n - 1]] = NthChild(f[n - 1], path[n])
    <3>1. n \in 1 .. m /\ f[n - 1] \in S
      BY <1>1, <2>4
    <3> QED
      BY <1>2, <3>1
  <2>5. \A n \in 0 .. m : f[n] = IF n = 0 THEN root ELSE NthChild(f[n - 1], path[n])
    BY <2>3, <2>4
  <2>6. GoesDown(root, path, f)
    BY <2>2, <2>5 DEF GoesDown, m
  <2> QED
    BY <2>6
<1>5. GoesDown(root, path, g)
  BY <1>4
<1>6. At(root, path) = g[m]
  BY DEF At, GoesDown
<1> HIDE DEF g, step
<1>7. \A n \in 0 .. m : g[n] = IF n = 0 THEN root ELSE NthChild(g[n - 1], path[n])
  BY <1>5 DEF GoesDown
<1>8. g[0] = root /\ \A n \in 1 .. m : g[n] = NthChild(g[n - 1], path[n])
  <2>1. 0 \in 0 .. m
    BY <1>1
  <2>2. \A n \in 1 .. m : n \in 0 .. m /\ n # 0
    BY <1>1
  <2> QED
    BY <1>7, <2>1, <2>2
<1>9. \A n \in 0 .. m : g[n] \in S
  <2> DEFINE T == {n \in 0 .. m : g[n] \in S}
  <2>1. 0 \in T
    BY <1>1, <1>8
  <2>2. ASSUME NEW n \in 0 .. m - 1, n \in T PROVE n + 1 \in T
    <3>1. n + 1 \in 1 .. m /\ n + 1 \in 0 .. m /\ (n + 1) - 1 = n
      BY <1>1
    <3>2. g[n + 1] = NthChild(g[n], path[n + 1]) /\ g[n] \in S
      BY <1>8, <2>2, <3>1
    <3>3. g[n + 1] \in S
      BY <3>2, ChildType
    <3> QED
      BY <3>1, <3>3
  <2>3. \A n \in 0 .. m - 1 : n \in T => n + 1 \in T
    BY <2>2
  <2>4. \A n \in 0 .. m : n \in T
    <3> HIDE DEF T, m
    <3> QED
      BY <1>1, <2>1, <2>3, NumbersUpTo
  <2> QED
    BY <2>4
<1> QED
  BY <1>6, <1>8, <1>9 DEF Downs

LEMMA AtType ==
  ASSUME NEW S, NEW V, NEW R, NEW b, IsSpelling(S, V, R, b), NEW root \in S, NEW path \in Seq(Nat)
  PROVE  At(root, path) \in S
<1>1. PICK g : Downs(S, root, path, g)
  BY AtDef
<1>2. Len(path) \in 0 .. Len(path)
  OBVIOUS
<1> QED
  BY <1>1, <1>2 DEF Downs

LEMMA AtRoot ==
  ASSUME NEW S, NEW V, NEW R, NEW b, IsSpelling(S, V, R, b), NEW root \in S
  PROVE  At(root, << >>) = root
<1>1. << >> \in Seq(Nat) /\ Len(<< >>) = 0
  OBVIOUS
<1>2. PICK g : Downs(S, root, << >>, g)
  BY <1>1, AtDef
<1> QED
  BY <1>1, <1>2 DEF Downs

LEMMA AtNext ==
  ASSUME NEW S, NEW V, NEW R, NEW b, IsSpelling(S, V, R, b), NEW root \in S,
         NEW path \in Seq(Nat), NEW k \in Nat
  PROVE  At(root, Append(path, k)) = NthChild(At(root, path), k)
<1> DEFINE more == Append(path, k)
           m == Len(path)
<1>1. /\ more \in Seq(Nat) /\ Len(more) = m + 1 /\ m \in Nat /\ more[m + 1] = k
      /\ \A n \in 1 .. m : more[n] = path[n]
  BY AppendProperties
<1> HIDE DEF more
<1>2. PICK g : Downs(S, root, path, g)
  BY AtDef
<1>3. PICK h : Downs(S, root, more, h)
  BY <1>1, AtDef
<1>4. /\ g[0] = root /\ \A n \in 1 .. m : g[n] = NthChild(g[n - 1], path[n])
      /\ At(root, path) = g[m]
  BY <1>2 DEF Downs
<1>5. /\ h[0] = root /\ \A n \in 1 .. m + 1 : h[n] = NthChild(h[n - 1], more[n])
      /\ At(root, more) = h[m + 1]
  BY <1>1, <1>3 DEF Downs
<1> DEFINE T == {n \in 0 .. m : g[n] = h[n]}
<1> HIDE DEF m
<1>6. 0 \in T
  BY <1>1, <1>4, <1>5
<1>7. ASSUME NEW n \in 0 .. m - 1, n \in T PROVE n + 1 \in T
  <2>1. n + 1 \in 1 .. m /\ n + 1 \in 1 .. m + 1 /\ n + 1 \in 0 .. m /\ (n + 1) - 1 = n
    BY <1>1
  <2>2. g[n + 1] = NthChild(g[n], path[n + 1]) /\ h[n + 1] = NthChild(h[n], more[n + 1])
    BY <1>4, <1>5, <2>1
  <2>3. g[n + 1] = h[n + 1]
    BY <1>1, <1>7, <2>1, <2>2
  <2> QED
    BY <2>1, <2>3
<1>8. m \in T
  <2>1. \A n \in 0 .. m - 1 : n \in T => n + 1 \in T
    BY <1>7
  <2>2. m \in 0 .. m
    BY <1>1
  <2> HIDE DEF T
  <2>3. \A n \in 0 .. m : n \in T
    BY <1>1, <1>6, <2>1, NumbersUpTo
  <2> QED
    BY <2>2, <2>3
<1>9. h[m + 1] = NthChild(h[m], k)
  <2>1. m + 1 \in 1 .. m + 1 /\ (m + 1) - 1 = m
    BY <1>1
  <2> QED
    BY <1>1, <1>5, <2>1
<1> QED
  BY <1>4, <1>5, <1>8, <1>9 DEF more

LeavesBelow(root, f, path) ==
  LET node == At(root, path) IN
  IF node.at > 0 THEN << node.at >>
  ELSE FlattenSeq([k \in DOMAIN node.children |-> f[Append(path, k)]])

FindsLeaves(root, f) == f = [path \in Seq(Nat) |-> LeavesBelow(root, f, path)]

(* What a tree's leaves are by Leaves is what its nodes spell.             *)
LEMMA LeavesYield ==
  ASSUME NEW S, NEW V, NEW R, NEW b, IsSpelling(S, V, R, b), NEW root \in S
  PROVE  Leaves(root) = V[root]
<1> DEFINE best == [path \in Seq(Nat) |-> V[At(root, path)]]
           f == CHOOSE h : FindsLeaves(root, h)
<1>1. /\ V \in [S -> Seq(Nat)] /\ b \in Nat /\ R \in [S -> 0 .. b - 1]
      /\ \A x \in S : /\ x.at \in Nat /\ x.children \in Seq(S) /\ V[x] = Spelled(V, x)
                      /\ \A k \in DOMAIN x.children : R[x.children[k]] < R[x]
  BY DEF IsSpelling
<1>2. \A path \in Seq(Nat) : At(root, path) \in S
  BY AtType
<1>3. ASSUME NEW path \in Seq(Nat), NEW k \in DOMAIN At(root, path).children
      PROVE  /\ Append(path, k) \in Seq(Nat)
             /\ At(root, Append(path, k)) = At(root, path).children[k]
  <2>1. At(root, path).children \in Seq(S)
    BY <1>1, <1>2
  <2>2. k \in Nat
    BY <2>1
  <2>3. At(root, Append(path, k)) = NthChild(At(root, path), k)
    BY <2>2, AtNext
  <2> QED
    BY <2>2, <2>3 DEF NthChild
<1>4. ASSUME NEW h, NEW path \in Seq(Nat),
             \A k \in DOMAIN At(root, path).children :
               h[Append(path, k)] = V[At(root, path).children[k]]
      PROVE  LeavesBelow(root, h, path) = V[At(root, path)]
  <2> DEFINE node == At(root, path)
  <2>1. [k \in DOMAIN node.children |-> h[Append(path, k)]]
          = [k \in DOMAIN node.children |-> V[node.children[k]]]
    BY <1>4
  <2>2. V[node] = Spelled(V, node)
    BY <1>1, <1>2
  <2> QED
    BY <2>1, <2>2 DEF LeavesBelow, Spelled, Yield
<1>5. FindsLeaves(root, best)
  <2>1. \A path \in Seq(Nat) : \A k \in DOMAIN At(root, path).children :
          best[Append(path, k)] = V[At(root, path).children[k]]
    BY <1>3
  <2>2. \A path \in Seq(Nat) : LeavesBelow(root, best, path) = V[At(root, path)]
    <3> HIDE DEF best
    <3> QED
      BY <1>4, <2>1
  <2> QED
    BY <2>2 DEF FindsLeaves
<1>6. FindsLeaves(root, f)
  <2> HIDE DEF best
  <2> QED
    BY <1>5
<1>7. Leaves(root) = f[<< >>]
  BY DEF Leaves, FindsLeaves, LeavesBelow
<1> HIDE DEF f, best
<1> DEFINE T == {n \in 0 .. b : \A path \in Seq(Nat) :
                   R[At(root, path)] < n => f[path] = V[At(root, path)]}
<1>8. 0 \in T
  <2>1. \A path \in Seq(Nat) : ~ (R[At(root, path)] < 0)
    <3> SUFFICES ASSUME NEW path \in Seq(Nat) PROVE ~ (R[At(root, path)] < 0)
      OBVIOUS
    <3>1. R[At(root, path)] \in 0 .. b - 1
      BY <1>1, <1>2
    <3> QED
      BY <1>1, <3>1
  <2> QED
    BY <1>1, <2>1
<1>9. ASSUME NEW n \in 0 .. b - 1, n \in T PROVE n + 1 \in T
  <2>1. ASSUME NEW path \in Seq(Nat), R[At(root, path)] < n + 1
        PROVE  f[path] = V[At(root, path)]
    <3>1. ASSUME NEW k \in DOMAIN At(root, path).children
          PROVE  f[Append(path, k)] = V[At(root, path).children[k]]
      <4> DEFINE node == At(root, path)
                 child == At(root, path).children[k]
      <4>1. node \in S /\ R[child] < R[node]
        BY <1>1, <1>2
      <4>2. Append(path, k) \in Seq(Nat) /\ At(root, Append(path, k)) = child
        BY <1>3
      <4>3. child \in S
        BY <1>2, <4>2
      <4>4. R[node] \in 0 .. b - 1 /\ R[child] \in 0 .. b - 1
        BY <1>1, <4>1, <4>3
      <4>5. R[node] < n + 1
        BY <2>1
      <4> HIDE DEF node, child
      <4>6. R[child] < n
        BY <1>1, <4>1, <4>4, <4>5
      <4>7. f[Append(path, k)] = V[At(root, Append(path, k))]
        BY <1>9, <4>2, <4>6
      <4> QED
        BY <4>2, <4>7 DEF child
    <3>2. f[path] = LeavesBelow(root, f, path)
      BY <1>6 DEF FindsLeaves
    <3> QED
      BY <1>4, <3>1, <3>2
  <2>2. n + 1 \in 0 .. b
    BY <1>1
  <2> QED
    BY <2>1, <2>2
<1>10. b \in T
  <2>1. \A n \in 0 .. b - 1 : n \in T => n + 1 \in T
    BY <1>9
  <2>2. b \in 0 .. b
    BY <1>1
  <2> HIDE DEF T
  <2>3. \A n \in 0 .. b : n \in T
    BY <1>1, <1>8, <2>1, NumbersUpTo
  <2> QED
    BY <2>2, <2>3
<1>11. At(root, << >>) = root /\ << >> \in Seq(Nat)
  BY AtRoot
<1>12. R[root] < b
  <2>1. R[root] \in 0 .. b - 1
    BY <1>1
  <2> QED
    BY <1>1, <2>1
<1>13. f[<< >>] = V[root]
  <2>1. \A path \in Seq(Nat) : R[At(root, path)] < b => f[path] = V[At(root, path)]
    BY <1>10
  <2> HIDE DEF T
  <2> QED
    BY <1>11, <1>12, <2>1
<1> QED
  BY <1>7, <1>13

-----------------------------------------------------------------------------
(* What the children of the nodes under construction spell together.       *)

Call(S) == [label : STRING, depth : Nat, children : Seq(S)]

ReadsBy(S, V, calls, q, text) ==
  /\ calls \in Seq(Call(S)) /\ q \in [0 .. Len(calls) -> Seq(Nat)]
  /\ q[0] = << >>
  /\ \A n \in 1 .. Len(calls) : q[n] = q[n - 1] \o Yield(V, calls[n].children)
  /\ q[Len(calls)] = text

Reads(S, V, calls, text) == \E q : ReadsBy(S, V, calls, q, text)

(* All calls but the innermost.                                            *)
Outer(calls) == SubSeq(calls, 1, Len(calls) - 1)

LEMMA OuterProps ==
  ASSUME NEW C, NEW calls \in Seq(C), calls # << >>
  PROVE  /\ Outer(calls) \in Seq(C) /\ Len(Outer(calls)) = Len(calls) - 1
         /\ Len(calls) \in Nat \ {0}
         /\ \A n \in 1 .. Len(calls) - 1 : Outer(calls)[n] = calls[n]
         /\ calls[Len(calls)] \in C
<1>1. Len(calls) \in Nat \ {0}
  BY EmptySeq
<1>2. \A n \in 1 .. Len(calls) - 1 : calls[n] \in C
  BY <1>1, ElementOfSeq
<1>3. calls[Len(calls)] \in C
  BY <1>1, ElementOfSeq
<1> DEFINE m == Len(calls) - 1
<1>4. m \in Nat /\ 1 \in Int /\ (~ (1 <= m) => m = 0) /\ m - 1 + 1 = m
  <2> DEFINE l == Len(calls)
  <2>1. l \in Nat \ {0} /\ m = l - 1
    BY <1>1
  <2> HIDE DEF l, m
  <2> QED
    BY <2>1
<1>5. \A n \in 1 .. m : 1 + n - 1 = n
  BY <1>4
<1> HIDE DEF m
<1>6. /\ SubSeq(calls, 1, m) \in Seq(C) /\ Len(SubSeq(calls, 1, m)) = m
      /\ \A n \in 1 .. m : SubSeq(calls, 1, m)[n] = calls[n]
  <2>1. \A n \in 1 .. m : calls[n] \in C
    BY <1>2 DEF m
  <2> QED
    BY <1>4, <1>5, <2>1, SubSeqProperties
<1> QED
  BY <1>1, <1>3, <1>6 DEF Outer, m

LEMMA LastChanged ==
  ASSUME NEW C, NEW calls \in Seq(C), calls # << >>, NEW c \in C
  PROVE  [calls EXCEPT ![Len(calls)] = c] = Append(Outer(calls), c)
<1> DEFINE s == [calls EXCEPT ![Len(calls)] = c]
           t == Append(Outer(calls), c)
           m == Len(calls) - 1
<1>1. /\ Outer(calls) \in Seq(C) /\ Len(Outer(calls)) = m /\ m \in Nat /\ Len(calls) = m + 1
      /\ \A n \in 1 .. m : Outer(calls)[n] = calls[n]
  BY OuterProps
<1>2. /\ s \in Seq(C) /\ Len(s) = m + 1
      /\ \A n \in 1 .. m + 1 : s[n] = IF n = m + 1 THEN c ELSE calls[n]
  <2>1. Len(calls) \in 1 .. Len(calls)
    BY <1>1
  <2> QED
    BY <1>1, <2>1, ExceptSeq
<1>3. /\ t \in Seq(C) /\ Len(t) = m + 1 /\ t[m + 1] = c
      /\ \A n \in 1 .. m : t[n] = Outer(calls)[n]
  BY <1>1, AppendProperties
<1> HIDE DEF s, t, m
<1>4. ASSUME NEW n \in 1 .. m + 1 PROVE s[n] = t[n]
  <2>1. CASE n = m + 1
    BY <1>2, <1>3, <2>1
  <2>2. CASE n # m + 1
    <3>1. n \in 1 .. m
      BY <1>1, <2>2
    <3> QED
      BY <1>1, <1>2, <1>3, <2>2, <3>1
  <2> QED
    BY <2>1, <2>2
<1>5. s = t
  BY <1>2, <1>3, <1>4, SeqEqual
<1> QED
  BY <1>5 DEF s, t

LEMMA ReadsType ==
  ASSUME NEW S, NEW V, NEW calls, NEW text, Reads(S, V, calls, text)
  PROVE  calls \in Seq(Call(S)) /\ text \in Seq(Nat) /\ (calls = << >> => text = << >>)
<1>1. PICK q : ReadsBy(S, V, calls, q, text)
  BY DEF Reads
<1>2. calls \in Seq(Call(S)) /\ q \in [0 .. Len(calls) -> Seq(Nat)] /\ q[Len(calls)] = text
      /\ q[0] = << >>
  BY <1>1 DEF ReadsBy
<1>3. Len(calls) \in 0 .. Len(calls)
  BY <1>2
<1>4. calls = << >> => Len(calls) = 0
  OBVIOUS
<1> QED
  BY <1>2, <1>3, <1>4

LEMMA ReadsNone ==
  ASSUME NEW S, NEW V
  PROVE  Reads(S, V, << >>, << >>)
<1> DEFINE q == [n \in 0 .. 0 |-> << >>]
<1>1. << >> \in Seq(Call(S)) /\ Len(<< >>) = 0 /\ << >> \in Seq(Nat)
  OBVIOUS
<1>2. q \in [0 .. 0 -> Seq(Nat)] /\ q[0] = << >>
  <2>1. 0 \in 0 .. 0
    OBVIOUS
  <2> QED
    BY <1>1, <2>1
<1> HIDE DEF q
<1>3. ReadsBy(S, V, << >>, q, << >>)
  BY <1>1, <1>2 DEF ReadsBy
<1> QED
  BY <1>3 DEF Reads

LEMMA ReadsPush ==
  ASSUME NEW S, NEW V \in [S -> Seq(Nat)], NEW calls, NEW text, Reads(S, V, calls, text),
         NEW c \in Call(S)
  PROVE  Reads(S, V, Append(calls, c), text \o Yield(V, c.children))
<1>1. PICK q : ReadsBy(S, V, calls, q, text)
  BY DEF Reads
<1> DEFINE more == Append(calls, c)
           m == Len(calls)
           y == Yield(V, c.children)
           p == [n \in 0 .. m + 1 |-> IF n = m + 1 THEN text \o y ELSE q[n]]
<1>2. /\ calls \in Seq(Call(S)) /\ m \in Nat /\ q \in [0 .. m -> Seq(Nat)]
      /\ q[0] = << >> /\ q[m] = text
      /\ \A n \in 1 .. m : q[n] = q[n - 1] \o Yield(V, calls[n].children)
  <2>1. calls \in Seq(Call(S))
    BY <1>1 DEF ReadsBy
  <2>2. m \in Nat
    BY <2>1
  <2> QED
    BY <1>1, <2>1, <2>2, Zenon DEF ReadsBy
<1>3. /\ more \in Seq(Call(S)) /\ Len(more) = m + 1 /\ more[m + 1] = c
      /\ \A n \in 1 .. m : more[n] = calls[n]
  BY <1>2, AppendProperties
<1>4. y \in Seq(Nat) /\ text \in Seq(Nat)
  <2>1. c.children \in Seq(S)
    BY DEF Call
  <2> QED
    BY <2>1, ReadsType, YieldType
<1> HIDE DEF m, more, y
<1>5. p \in [0 .. m + 1 -> Seq(Nat)]
  <2>1. text \o y \in Seq(Nat)
    BY <1>4, ConcatProperties
  <2>2. \A n \in 0 .. m + 1 : n # m + 1 => q[n] \in Seq(Nat)
    BY <1>2
  <2> QED
    BY <2>1, <2>2
<1>6. p[m + 1] = text \o y /\ \A n \in 0 .. m : p[n] = q[n]
  <2>1. m + 1 \in 0 .. m + 1 /\ \A n \in 0 .. m : n \in 0 .. m + 1 /\ n # m + 1
    BY <1>2
  <2> QED
    BY <2>1
<1> HIDE DEF p
<1>7. ASSUME NEW n \in 1 .. m + 1 PROVE p[n] = p[n - 1] \o Yield(V, more[n].children)
  <2>1. CASE n = m + 1
    <3>1. n - 1 = m /\ m \in 0 .. m
      BY <1>2, <2>1
    <3>2. p[n - 1] = text
      BY <1>2, <1>6, <3>1
    <3> QED
      BY <1>3, <1>6, <2>1, <3>2 DEF y
  <2>2. CASE n # m + 1
    <3>1. n \in 1 .. m /\ n \in 0 .. m /\ n - 1 \in 0 .. m
      BY <1>2, <2>2
    <3> QED
      BY <1>2, <1>3, <1>6, <3>1
  <2> QED
    BY <2>1, <2>2
<1>8. p[0] = << >>
  BY <1>2, <1>6
<1>9. ReadsBy(S, V, more, p, text \o y)
  BY <1>3, <1>5, <1>6, <1>7, <1>8 DEF ReadsBy
<1> QED
  BY <1>9 DEF Reads, more, y

ReadsOuter(S, V, calls, text) ==
  \E u \in Seq(Nat) : /\ Reads(S, V, Outer(calls), u)
                      /\ text = u \o Yield(V, calls[Len(calls)].children)

LEMMA ReadsPop ==
  ASSUME NEW S, NEW V, NEW calls, NEW text, Reads(S, V, calls, text), calls # << >>
  PROVE  ReadsOuter(S, V, calls, text)
<1>1. PICK q : ReadsBy(S, V, calls, q, text)
  BY DEF Reads
<1> DEFINE rest == Outer(calls)
           m == Len(calls) - 1
           p == [n \in 0 .. m |-> q[n]]
<1>2. /\ calls \in Seq(Call(S)) /\ q \in [0 .. Len(calls) -> Seq(Nat)]
      /\ q[0] = << >> /\ q[Len(calls)] = text
      /\ \A n \in 1 .. Len(calls) : q[n] = q[n - 1] \o Yield(V, calls[n].children)
  BY <1>1 DEF ReadsBy
<1>3. /\ m \in Nat /\ Len(calls) = m + 1 /\ rest \in Seq(Call(S)) /\ Len(rest) = m
      /\ \A n \in 1 .. m : rest[n] = calls[n]
  BY <1>2, OuterProps
<1> HIDE DEF m, rest
<1>4. p \in [0 .. m -> Seq(Nat)] /\ \A n \in 0 .. m : p[n] = q[n]
  <2>1. \A n \in 0 .. m : q[n] \in Seq(Nat)
    BY <1>2, <1>3
  <2> QED
    BY <2>1
<1> HIDE DEF p
<1>5. ASSUME NEW n \in 1 .. m PROVE p[n] = p[n - 1] \o Yield(V, rest[n].children)
  <2>1. n \in 1 .. Len(calls) /\ n \in 0 .. m /\ n - 1 \in 0 .. m
    BY <1>3
  <2> QED
    BY <1>2, <1>3, <1>4, <2>1
<1>6. p[0] = << >> /\ p[m] \in Seq(Nat) /\ 0 \in 0 .. m /\ m \in 0 .. m
  BY <1>2, <1>3, <1>4
<1>7. ReadsBy(S, V, rest, p, p[m])
  BY <1>3, <1>4, <1>5, <1>6 DEF ReadsBy
<1>8. text = p[m] \o Yield(V, calls[Len(calls)].children)
  <2>1. m + 1 \in 1 .. Len(calls) /\ (m + 1) - 1 = m
    BY <1>3
  <2>2. q[m + 1] = q[m] \o Yield(V, calls[m + 1].children)
    BY <1>2, <2>1
  <2> QED
    BY <1>2, <1>3, <1>4, <1>6, <2>2
<1> QED
  BY <1>6, <1>7, <1>8 DEF ReadsOuter, Reads, rest

LEMMA ReadsSame ==
  ASSUME NEW S, NEW T, S \subseteq T, NEW V \in [S -> Seq(Nat)], NEW W \in [T -> Seq(Nat)],
         \A x \in S : W[x] = V[x], NEW calls, NEW text, Reads(S, V, calls, text)
  PROVE  Reads(T, W, calls, text)
<1>1. PICK q : ReadsBy(S, V, calls, q, text)
  BY DEF Reads
<1>2. /\ calls \in Seq(Call(S)) /\ q \in [0 .. Len(calls) -> Seq(Nat)]
      /\ q[0] = << >> /\ q[Len(calls)] = text
      /\ \A n \in 1 .. Len(calls) : q[n] = q[n - 1] \o Yield(V, calls[n].children)
  BY <1>1 DEF ReadsBy
<1>3. \A s \in Seq(S) : s \in Seq(T)
  BY SeqMonotonic
<1>4. Call(S) \subseteq Call(T)
  BY <1>3 DEF Call
<1>5. calls \in Seq(Call(T))
  BY <1>2, <1>4, SeqMonotonic
<1>6. ASSUME NEW n \in 1 .. Len(calls)
      PROVE  Yield(W, calls[n].children) = Yield(V, calls[n].children)
  <2>1. calls[n] \in Call(S)
    BY <1>2, ElementOfSeq
  <2>2. calls[n].children \in Seq(S)
    BY <2>1 DEF Call
  <2> DEFINE nodes == calls[n].children
  <2>3. nodes \in Seq(S) /\ S \subseteq T /\ V \in [S -> Seq(Nat)] /\ W \in [T -> Seq(Nat)]
        /\ \A x \in S : W[x] = V[x]
    BY <2>2
  <2> HIDE DEF nodes
  <2>4. Yield(W, nodes) = Yield(V, nodes)
    <3>1. \A x \in S : W[x] = V[x]
      OBVIOUS
    <3>2. nodes \in Seq(S)
      BY <2>3
    <3> QED
      BY ONLY <3>1, <3>2, YieldSame
  <2> QED
    BY <2>4 DEF nodes
<1>7. ReadsBy(T, W, calls, q, text)
  BY <1>2, <1>5, <1>6 DEF ReadsBy
<1> QED
  BY <1>7 DEF Reads

(* A child more for the innermost call.                                    *)
LEMMA AddChildProps ==
  ASSUME NEW S, NEW calls \in Seq(Call(S)), calls # << >>, NEW x \in S
  PROVE  \E c \in Call(S) : /\ AddChild(calls, x) = Append(Outer(calls), c)
                             /\ c.depth = calls[Len(calls)].depth
                             /\ c.children = Append(calls[Len(calls)].children, x)
<1> DEFINE last == calls[Len(calls)]
           c == [last EXCEPT !.children = Append(@, x)]
<1>1. last \in Call(S)
  BY OuterProps
<1>2. last.children \in Seq(S)
  BY <1>1 DEF Call
<1>3. Append(last.children, x) \in Seq(S)
  BY <1>2, AppendProperties
<1>4. c \in Call(S) /\ c.depth = last.depth /\ c.children = Append(last.children, x)
  <2> HIDE DEF last
  <2> QED
    BY <1>1, <1>3 DEF Call
<1>5. AddChild(calls, x) = [calls EXCEPT ![Len(calls)] = c]
  BY DEF AddChild
<1> HIDE DEF last, c
<1>6. [calls EXCEPT ![Len(calls)] = c] = Append(Outer(calls), c)
  BY <1>4, LastChanged
<1> QED
  BY <1>4, <1>5, <1>6 DEF last, c

(* The innermost call without its last child.                              *)
LEMMA OthersProps ==
  ASSUME NEW S, building \in Seq(Call(S)), building # << >>, Top.children # << >>,
         NEW r \in Taking
  PROVE  \E c \in Call(S), x \in S :
           /\ Others(r) = Append(Outer(building), c) /\ Taken(r) = << x >>
           /\ c.depth = Top.depth /\ Top.children = Append(c.children, x)
<1> DEFINE c == [Top EXCEPT !.children = SubSeq(@, 1, Len(@) - 1)]
           kids == Top.children
           x == kids[Len(kids)]
<1>1. Top \in Call(S)
  BY OuterProps DEF Top
<1>2. kids \in Seq(S) /\ kids # << >>
  BY <1>1 DEF Call
<1> HIDE DEF kids
<1>3. Outer(kids) \in Seq(S) /\ Len(Outer(kids)) = Len(kids) - 1 /\ Len(kids) \in Nat \ {0}
      /\ x \in S /\ \A n \in 1 .. Len(kids) - 1 : Outer(kids)[n] = kids[n]
  BY <1>2, OuterProps
<1>4. c \in Call(S) /\ c.depth = Top.depth /\ c.children = Outer(kids)
  <2>1. c = [Top EXCEPT !.children = Outer(kids)]
    BY DEF Outer, kids
  <2> HIDE DEF c
  <2> QED
    BY <1>1, <1>3, <2>1 DEF Call
<1>5. kids = Append(Outer(kids), x)
  <2> DEFINE m == Len(kids) - 1
             t == Append(Outer(kids), x)
  <2>1. m \in Nat /\ Len(kids) = m + 1 /\ Len(Outer(kids)) = m
    BY <1>3
  <2>2. t \in Seq(S) /\ Len(t) = m + 1 /\ t[m + 1] = x /\ \A n \in 1 .. m : t[n] = Outer(kids)[n]
    BY <1>3, <2>1, AppendProperties
  <2>3. x = kids[m + 1] /\ \A n \in 1 .. m : Outer(kids)[n] = kids[n]
    BY <1>3, <2>1
  <2> HIDE DEF m, t, x
  <2>4. ASSUME NEW n \in 1 .. m + 1 PROVE t[n] = kids[n]
    <3>1. CASE n = m + 1
      BY <2>2, <2>3, <3>1
    <3>2. CASE n # m + 1
      <4>1. n \in 1 .. m
        BY <2>1, <3>2
      <4> QED
        BY <2>2, <2>3, <4>1
    <3> QED
      BY <3>1, <3>2
  <2>5. t = kids
    BY <1>2, <2>1, <2>2, <2>4, SeqEqual
  <2> QED
    BY <2>5 DEF t
<1>6. Others(r) = [building EXCEPT ![Len(building)] = c]
  BY DEF Others, Top
<1>7. Taken(r) = << x >>
  BY DEF Taken, kids
<1> HIDE DEF c, x
<1>8. [building EXCEPT ![Len(building)] = c] = Append(Outer(building), c)
  BY <1>4, LastChanged
<1>9. Others(r) = Append(Outer(building), c) /\ Top.children = Append(c.children, x)
  <2>1. Others(r) = Append(Outer(building), c)
    BY <1>6, <1>8
  <2>2. Top.children = Append(c.children, x)
    BY <1>4, <1>5 DEF kids
  <2> QED
    BY <2>1, <2>2
<1>10. c \in Call(S) /\ x \in S /\ Taken(r) = << x >> /\ c.depth = Top.depth
  <2>1. x \in S
    BY <1>3 DEF x
  <2>2. Taken(r) = << x >>
    BY <1>7 DEF x
  <2> QED
    BY <1>4, <2>1, <2>2
<1> QED
  BY ONLY <1>9, <1>10, Zenon

LEMMA ConcatThree ==
  \A u, v, w \in Seq(Nat) : (u \o v) \o w = u \o (v \o w)
BY ConcatAssociative

LEMMA YieldOne ==
  ASSUME NEW S, NEW V \in [S -> Seq(Nat)], NEW x \in S
  PROVE  Yield(V, << x >>) = V[x]
<1>1. << >> \in Seq(S) /\ Append(<< >>, x) = << x >> /\ V[x] \in Seq(Nat)
  OBVIOUS
<1>2. Yield(V, Append(<< >>, x)) = Yield(V, << >>) \o V[x]
  BY <1>1, YieldAppend
<1> QED
  BY <1>1, <1>2, YieldEmpty, ConcatEmptySeq

LEMMA ReadsAdd ==
  ASSUME NEW S, NEW V \in [S -> Seq(Nat)], NEW calls, NEW text, Reads(S, V, calls, text),
         calls # << >>, NEW x \in S
  PROVE  Reads(S, V, AddChild(calls, x), text \o V[x])
<1> DEFINE last == calls[Len(calls)]
<1>1. calls \in Seq(Call(S)) /\ text \in Seq(Nat)
  BY ReadsType
<1>2. PICK c \in Call(S) : /\ AddChild(calls, x) = Append(Outer(calls), c)
                           /\ c.children = Append(last.children, x)
  BY <1>1, AddChildProps
<1>0. ReadsOuter(S, V, calls, text)
  BY ReadsPop
<1>3. PICK u \in Seq(Nat) : /\ Reads(S, V, Outer(calls), u)
                           /\ text = u \o Yield(V, last.children)
  BY <1>0 DEF ReadsOuter
<1>4. last.children \in Seq(S)
  <2>1. last \in Call(S)
    BY <1>1, OuterProps
  <2> QED
    BY <2>1 DEF Call
<1> HIDE DEF last
<1>5. Reads(S, V, Append(Outer(calls), c), u \o Yield(V, c.children))
  BY <1>2, <1>3, ReadsPush
<1>6. Yield(V, c.children) = Yield(V, last.children) \o V[x]
  BY <1>2, <1>4, YieldAppend
<1>7. u \o (Yield(V, last.children) \o V[x]) = text \o V[x]
  <2> DEFINE v == Yield(V, last.children)
             w == V[x]
  <2>1. v \in Seq(Nat) /\ w \in Seq(Nat)
    BY <1>4, YieldType
  <2>2. text = u \o v
    BY <1>3
  <2> HIDE DEF v, w
  <2>3. u \o (v \o w) = text \o w
    BY <2>1, <2>2, ConcatThree
  <2> QED
    BY <2>3 DEF v, w
<1> QED
  BY <1>2, <1>5, <1>6, <1>7

LEMMA ReadsTake ==
  ASSUME NEW S, NEW V \in [S -> Seq(Nat)], NEW text, Reads(S, V, building, text),
         building # << >>, Top.children # << >>, NEW r \in Taking,
         NEW c \in Call(S), c.children = Taken(r)
  PROVE  Reads(S, V, Append(Others(r), c), text)
<1>1. building \in Seq(Call(S)) /\ text \in Seq(Nat)
  BY ReadsType
<1>2. PICK d \in Call(S), x \in S :
        /\ Others(r) = Append(Outer(building), d) /\ Taken(r) = << x >>
        /\ Top.children = Append(d.children, x)
  BY <1>1, OthersProps
<1>0. ReadsOuter(S, V, building, text)
  BY ReadsPop
<1>3. PICK u \in Seq(Nat) : /\ Reads(S, V, Outer(building), u)
                           /\ text = u \o Yield(V, Top.children)
  BY <1>0 DEF ReadsOuter, Top
<1>4. d.children \in Seq(S)
  BY <1>2 DEF Call
<1>5. Reads(S, V, Append(Outer(building), d), u \o Yield(V, d.children))
  BY <1>2, <1>3, ReadsPush
<1>6. Reads(S, V, Append(Others(r), c), (u \o Yield(V, d.children)) \o Yield(V, c.children))
  BY <1>2, <1>5, ReadsPush
<1>7. Yield(V, c.children) = V[x]
  BY <1>2, YieldOne
<1>8. Yield(V, Top.children) = Yield(V, d.children) \o V[x]
  BY <1>2, <1>4, YieldAppend
<1>9. (u \o Yield(V, d.children)) \o V[x] = text
  <2> DEFINE v == Yield(V, d.children)
             w == V[x]
  <2>1. v \in Seq(Nat) /\ w \in Seq(Nat)
    BY <1>2, <1>4, YieldType
  <2>2. text = u \o (v \o w)
    BY <1>3, <1>8
  <2> HIDE DEF v, w
  <2>3. (u \o v) \o w = text
    BY <2>1, <2>2, ConcatThree
  <2> QED
    BY <2>3 DEF v, w
<1> QED
  BY <1>6, <1>7, <1>9

-----------------------------------------------------------------------------
(* Calls are nested: an inner one returns no later than an outer one.      *)

Nested(calls, m) ==
  /\ \A i \in 1 .. Len(calls) : calls[i].depth \in Nat /\ calls[i].depth <= m
  /\ \A i, j \in 1 .. Len(calls) : i <= j => calls[i].depth <= calls[j].depth

ReturnsAt(calls, d) == \E i \in 1 .. Len(calls) : calls[i].depth = d

Filled(calls) == calls # << >> /\ calls[Len(calls)].children # << >>

Builds(s) == s \in Terminals \/ (s \in Rules /\ Named[s] # "none")

(* When a rule that takes a node is reached, one has just been added: by   *)
(* what stands before it, by a call that returns there, or already.        *)
Prepared(calls, rest, n) ==
  \/ n > 1 /\ Builds(rest[n - 1])
  \/ ReturnsAt(calls, Len(rest) - n + 1)
  \/ n = 1 /\ Filled(calls)

Ready(calls, rest) ==
  \A n \in 1 .. Len(rest) : rest[n] \in Receiving => Prepared(calls, rest, n)

Staged(calls, trees, rest) ==
  \/ calls = << >> /\ trees = << >> /\ rest = << Goal >>
  \/ calls # << >> /\ trees = << >> /\ calls[1].depth = 0
  \/ calls = << >> /\ Len(trees) = 1 /\ rest = << >>

NestInv ==
  /\ \E S : building \in Seq(Call(S))
  /\ Nested(building, Len(todo))
  /\ Ready(building, todo)
  /\ Staged(building, tree, todo)

SameDepths(a, b) ==
  /\ Len(b) = Len(a) /\ \A i \in 1 .. Len(a) : b[i].depth = a[i].depth

LEMMA CallsGrow ==
  ASSUME NEW S, NEW T, S \subseteq T, NEW calls \in Seq(Call(S))
  PROVE  calls \in Seq(Call(T))
<1>1. \A s \in Seq(S) : s \in Seq(T)
  BY SeqMonotonic
<1>2. Call(S) \subseteq Call(T)
  BY <1>1 DEF Call
<1> QED
  BY <1>2, SeqMonotonic

LEMMA ReplacedDepths ==
  ASSUME NEW C, NEW calls \in Seq(C), calls # << >>, NEW c \in C,
         c.depth = calls[Len(calls)].depth
  PROVE  /\ SameDepths(calls, Append(Outer(calls), c)) /\ Append(Outer(calls), c) # << >>
         /\ Append(Outer(calls), c)[Len(calls)] = c
<1> DEFINE m == Len(calls) - 1
           t == Append(Outer(calls), c)
<1>1. /\ Outer(calls) \in Seq(C) /\ Len(Outer(calls)) = m /\ m \in Nat /\ Len(calls) = m + 1
      /\ \A n \in 1 .. m : Outer(calls)[n] = calls[n]
  BY OuterProps
<1>2. /\ t \in Seq(C) /\ Len(t) = m + 1 /\ t[m + 1] = c
      /\ \A n \in 1 .. m : t[n] = Outer(calls)[n]
  BY <1>1, AppendProperties
<1> HIDE DEF m, t
<1>3. ASSUME NEW n \in 1 .. m + 1 PROVE t[n].depth = calls[n].depth
  <2>1. CASE n = m + 1
    BY <1>1, <1>2, <2>1
  <2>2. CASE n # m + 1
    <3>1. n \in 1 .. m
      BY <1>1, <2>2
    <3> QED
      BY <1>1, <1>2, <3>1
  <2> QED
    BY <2>1, <2>2
<1>4. t # << >>
  BY <1>1, <1>2
<1>5. SameDepths(calls, t)
  BY <1>1, <1>2, <1>3 DEF SameDepths
<1> QED
  BY <1>1, <1>2, <1>4, <1>5 DEF t

LEMMA AddDepths ==
  ASSUME NEW S, NEW calls \in Seq(Call(S)), calls # << >>, NEW x
  PROVE  LET more == AddChild(calls, x) IN
         /\ more \in Seq(Call(S \cup {x})) /\ SameDepths(calls, more) /\ Filled(more)
<1> DEFINE T == S \cup {x}
           last == calls[Len(calls)]
           more == AddChild(calls, x)
<1>1. calls \in Seq(Call(T)) /\ x \in T
  BY CallsGrow
<1> HIDE DEF T
<1>2. PICK c \in Call(T) : /\ more = Append(Outer(calls), c)
                           /\ c.depth = last.depth /\ c.children = Append(last.children, x)
  BY <1>1, AddChildProps
<1>3. last \in Call(T) /\ Outer(calls) \in Seq(Call(T))
  BY <1>1, OuterProps
<1>4. last.children \in Seq(T)
  BY <1>3 DEF Call
<1>5. c.children # << >>
  <2> DEFINE kids == last.children
  <2>1. kids \in Seq(T) /\ c.children = Append(kids, x) /\ x \in T
    BY <1>1, <1>2, <1>4
  <2> HIDE DEF kids
  <2>2. Len(Append(kids, x)) = Len(kids) + 1 /\ Len(kids) \in Nat
    BY <2>1, AppendProperties
  <2> QED
    BY <2>1, <2>2
<1>6. /\ SameDepths(calls, Append(Outer(calls), c)) /\ Append(Outer(calls), c) # << >>
      /\ Append(Outer(calls), c)[Len(calls)] = c
  BY <1>1, <1>2, ReplacedDepths
<1>7. Append(Outer(calls), c) \in Seq(Call(T))
  BY <1>3, AppendProperties
<1> HIDE DEF more, last
<1>8. more \in Seq(Call(T)) /\ SameDepths(calls, more) /\ more # << >> /\ more[Len(calls)] = c
  BY <1>2, <1>6, <1>7
<1>9. Filled(more)
  BY <1>5, <1>8 DEF Filled, SameDepths
<1> QED
  BY <1>8, <1>9 DEF more, T

LEMMA OthersDepths ==
  ASSUME NEW S, building \in Seq(Call(S)), NEW r \in Rules, r \in Taking => Filled(building)
  PROVE  /\ Others(r) \in Seq(Call(S)) /\ SameDepths(building, Others(r))
         /\ Taken(r) \in Seq(S)
<1>1. CASE r \notin Taking
  BY <1>1 DEF Others, Taken, SameDepths
<1>2. CASE r \in Taking
  <2>1. building # << >> /\ Top.children # << >>
    BY <1>2 DEF Filled, Top
  <2>2. PICK d \in Call(S), x \in S :
          /\ Others(r) = Append(Outer(building), d) /\ Taken(r) = << x >>
          /\ d.depth = Top.depth
    BY <1>2, <2>1, OthersProps
  <2>3. SameDepths(building, Append(Outer(building), d))
    BY <2>1, <2>2, ReplacedDepths DEF Top
  <2>4. Append(Outer(building), d) \in Seq(Call(S))
    BY <2>1, <2>2, OuterProps, AppendProperties
  <2> QED
    BY <2>2, <2>3, <2>4
<1> QED
  BY <1>1, <1>2

(* What is known of depths carries over.                                   *)
LEMMA DepthsCarry ==
  ASSUME NEW a, NEW b, SameDepths(a, b), Len(a) \in Nat, NEW m
  PROVE  /\ Nested(a, m) => Nested(b, m)
         /\ \A d : ReturnsAt(a, d) => ReturnsAt(b, d)
BY DEF SameDepths, Nested, ReturnsAt

(* While no call returns, all return later.                                *)
LEMMA NoneReturns ==
  ASSUME todo \in Seq(Symbols), todo # << >>, NestInv, ~ Returning
  PROVE  /\ Nested(building, Len(todo) - 1)
         /\ ~ ReturnsAt(building, Len(todo))
<1> DEFINE k == Len(building)
           m == Len(todo)
<1>1. k \in Nat /\ m \in Nat \ {0} /\ (building # << >> => k \in 1 .. k)
  <2>1. PICK S : building \in Seq(Call(S))
    BY DEF NestInv
  <2>2. k \in Nat /\ (building # << >> => k # 0)
    BY <2>1
  <2>3. m \in Nat /\ m # 0
    OBVIOUS
  <2> QED
    BY <2>2, <2>3
<1>2. /\ \A i \in 1 .. k : building[i].depth \in Nat /\ building[i].depth <= m
      /\ \A i, j \in 1 .. k : i <= j => building[i].depth <= building[j].depth
  BY DEF NestInv, Nested
<1>3. building # << >> => building[k].depth # m
  BY DEF Returning, Top
<1> HIDE DEF k, m
<1>4. ASSUME NEW i \in 1 .. k PROVE building[i].depth <= m - 1 /\ building[i].depth # m
  <2>1. building # << >> /\ k \in 1 .. k /\ i <= k
    BY <1>1, <1>4 DEF k
  <2>2. building[i].depth <= building[k].depth /\ building[k].depth <= m
        /\ building[k].depth \in Nat /\ building[i].depth \in Nat /\ building[k].depth # m
    BY <1>2, <1>3, <2>1
  <2> QED
    BY <1>1, <2>2
<1> QED
  BY <1>2, <1>4 DEF Nested, ReturnsAt, k, m

LEMMA ReadyHead ==
  ASSUME todo \in Seq(Symbols), todo # << >>, NestInv, ~ Returning, Head(todo) \in Receiving
  PROVE  Filled(building)
<1>1. 1 \in 1 .. Len(todo) /\ Head(todo) = todo[1]
  OBVIOUS
<1>2. Prepared(building, todo, 1)
  BY <1>1 DEF NestInv, Ready
<1>3. ~ ReturnsAt(building, Len(todo))
  BY NoneReturns
<1>4. Len(todo) - 1 + 1 = Len(todo)
  OBVIOUS
<1> QED
  BY <1>2, <1>3, <1>4 DEF Prepared

LEMMA NestReturn == ParserTypeOK /\ NestInv /\ Return => NestInv'
<1> SUFFICES ASSUME ParserTypeOK, NestInv, Return PROVE NestInv'
  OBVIOUS
<1> DEFINE node == Node(Top.label, Top.children)
           rest == Outer(building)
<1>1. PICK S : building \in Seq(Call(S))
  BY DEF NestInv
<1>2. /\ building # << >> /\ Top.depth = Len(todo) /\ UNCHANGED << tokens, pos, todo, status >>
      /\ IF rest = << >> THEN building' = << >> /\ tree' = << node >>
         ELSE building' = AddChild(rest, node) /\ UNCHANGED tree
  BY DEF Return, Returning, Outer
<1>3. /\ rest \in Seq(Call(S)) /\ Len(rest) = Len(building) - 1 /\ Len(building) \in Nat \ {0}
      /\ \A n \in 1 .. Len(building) - 1 : rest[n] = building[n]
  BY <1>1, <1>2, OuterProps
<1>4. tree = << >> /\ building[1].depth = 0
  BY <1>2 DEF NestInv, Staged
<1>5. Len(todo) \in Nat
  BY DEF ParserTypeOK
<1> HIDE DEF rest, node
<1>6. CASE rest = << >>
  <2>1. Len(building) = 1
    BY <1>3, <1>6
  <2>2. todo = << >>
    BY <1>2, <1>4, <1>5, <2>1 DEF Top, ParserTypeOK
  <2>3. building' = << >> /\ Len(tree') = 1 /\ todo' = << >>
    BY <1>2, <1>6, <2>2
  <2>4. building' \in Seq(Call(S)) /\ Nested(building', Len(todo')) /\ Ready(building', todo')
    BY <2>3 DEF Nested, Ready
  <2> QED
    BY <2>3, <2>4 DEF NestInv, Staged
<1>7. CASE rest # << >>
  <2> DEFINE more == AddChild(rest, node)
  <2>1. more \in Seq(Call(S \cup {node})) /\ SameDepths(rest, more) /\ Filled(more)
    BY <1>3, <1>7, AddDepths
  <2>2. building' = more /\ tree' = tree /\ todo' = todo
    BY <1>2, <1>7
  <2> HIDE DEF more
  <2>3. Nested(rest, Len(todo))
    BY <1>3 DEF NestInv, Nested
  <2>4. Nested(more, Len(todo)) /\ \A d : ReturnsAt(rest, d) => ReturnsAt(more, d)
    BY <1>3, <2>1, <2>3, DepthsCarry
  <2>5. ASSUME NEW n \in 1 .. Len(todo), todo[n] \in Receiving
        PROVE  Prepared(more, todo, n)
    <3>1. CASE n = 1
      BY <2>1, <3>1 DEF Prepared
    <3>2. CASE n # 1
      <4>1. Prepared(building, todo, n)
        BY <2>5 DEF NestInv, Ready
      <4>2. CASE ReturnsAt(building, Len(todo) - n + 1)
        <5>1. PICK i \in 1 .. Len(building) : building[i].depth = Len(todo) - n + 1
          BY <4>2 DEF ReturnsAt
        <5>2. i # Len(building)
          BY <1>2, <1>5, <3>2, <5>1 DEF Top
        <5>3. i \in 1 .. Len(rest) /\ rest[i] = building[i]
          BY <1>3, <5>2
        <5>4. ReturnsAt(rest, Len(todo) - n + 1)
          BY <5>1, <5>3 DEF ReturnsAt
        <5> QED
          BY <2>4, <5>4 DEF Prepared
      <4> QED
        BY <3>2, <4>1, <4>2 DEF Prepared
    <3> QED
      BY <3>1, <3>2
  <2>6. Staged(more, tree, todo)
    <3>1. more # << >> /\ 1 \in 1 .. Len(rest) /\ 1 \in 1 .. Len(building) - 1
      BY <1>3, <1>7, <2>1 DEF Filled
    <3>2. more[1].depth = 0
      BY <1>3, <1>4, <2>1, <3>1 DEF SameDepths
    <3> QED
      BY <1>4, <3>1, <3>2 DEF Staged
  <2> QED
    BY <2>1, <2>2, <2>4, <2>5, <2>6 DEF NestInv, Ready
<1> QED
  BY <1>6, <1>7

LEMMA NestMatch == ParserTypeOK /\ NestInv /\ Match => NestInv'
<1> SUFFICES ASSUME ParserTypeOK, NestInv, Match PROVE NestInv'
  OBVIOUS
<1> DEFINE leaf == Leaf(Head(todo), pos + 1)
           more == AddChild(building, leaf)
           m == Len(todo)
<1>1. PICK S : building \in Seq(Call(S))
  BY DEF NestInv
<1>2. /\ todo # << >> /\ Head(todo) \notin Rules /\ ~ Returning
      /\ todo' = Tail(todo) /\ building' = more /\ tree' = tree
  BY DEF Match, Working
<1>3. /\ todo \in Seq(Symbols) /\ m \in Nat \ {0} /\ Head(todo) = todo[1]
      /\ Len(todo') = m - 1 /\ \A n \in 1 .. m - 1 : todo'[n] = todo[n + 1]
  <2>1. todo \in Seq(Symbols)
    BY DEF ParserTypeOK
  <2> QED
    BY <1>2, <2>1
<1>4. building # << >> /\ tree = << >> /\ building[1].depth = 0
  <2>1. todo # << Goal >>
    BY <1>2, <1>3, TableAssumption
  <2> QED
    BY <1>2, <2>1 DEF NestInv, Staged
<1>5. more \in Seq(Call(S \cup {leaf})) /\ SameDepths(building, more) /\ Filled(more)
  BY <1>1, <1>4, AddDepths
<1>6. Nested(building, m - 1)
  BY <1>2, <1>3, NoneReturns
<1>7. Len(building) \in Nat \ {0}
  BY <1>1, <1>4
<1> HIDE DEF more, m
<1>8. Nested(more, m - 1) /\ \A d : ReturnsAt(building, d) => ReturnsAt(more, d)
  BY <1>5, <1>6, <1>7, DepthsCarry
<1>9. ASSUME NEW n \in 1 .. m - 1, todo'[n] \in Receiving
      PROVE  Prepared(more, todo', n)
  <2>1. CASE n = 1
    BY <1>5, <2>1 DEF Prepared
  <2>2. CASE n # 1
    <3>1. n + 1 \in 1 .. m /\ todo[n + 1] \in Receiving /\ todo'[n - 1] = todo[n]
          /\ n + 1 - 1 = n /\ m - (n + 1) + 1 = (m - 1) - n + 1
      <4>1. n - 1 \in 1 .. m - 1 /\ (n - 1) + 1 = n
        BY <1>3, <2>2
      <4>2. todo'[n - 1] = todo[n]
        BY <1>3, <4>1
      <4> QED
        BY <1>3, <1>9, <4>2
    <3>2. Prepared(building, todo, n + 1)
      BY <3>1 DEF NestInv, Ready, m
    <3>3. Builds(todo[n]) \/ ReturnsAt(building, (m - 1) - n + 1)
      BY <3>1, <3>2 DEF Prepared, m
    <3> QED
      BY <1>3, <1>8, <2>2, <3>1, <3>3 DEF Prepared
  <2> QED
    BY <2>1, <2>2
<1>10. Staged(more, tree, todo')
  <2>1. 1 \in 1 .. Len(building)
    BY <1>7
  <2>2. more # << >> /\ more[1].depth = 0
    BY <1>4, <1>5, <2>1 DEF SameDepths, Filled
  <2> QED
    BY <1>4, <2>2 DEF Staged
<1> QED
  BY <1>2, <1>3, <1>5, <1>8, <1>9, <1>10 DEF NestInv, Ready

(* The call a predicted rule makes, when its node has a name.              *)
Called(r, d) == [label |-> Named[r], depth |-> d, children |-> Taken(r)]

LEMMA NestPredict == ParserTypeOK /\ NestInv /\ Predict => NestInv'
<1> SUFFICES ASSUME ParserTypeOK, NestInv, Predict PROVE NestInv'
  OBVIOUS
<1> DEFINE r == Head(todo)
           m == Len(todo)
<1>1. PICK S : building \in Seq(Call(S))
  BY DEF NestInv
<1>2. /\ todo # << >> /\ r \in Rules /\ ~ Returning /\ tree' = tree
  BY DEF Predict, Working
<1>3. PICK k \in DOMAIN Table[r] :
        /\ todo' = Table[r][k].body \o Tail(todo)
        /\ building' = IF Named[r] = "none" THEN building
                       ELSE Append(Others(r), Called(r, m - 1))
  BY DEF Predict, Called
<1> DEFINE body == Table[r][k].body
           l == Len(body)
<1>4. todo \in Seq(Symbols)
  BY DEF ParserTypeOK
<1>5. body \in Seq(Symbols) /\ l \in Nat
  BY <1>2, <1>3, TableAssumption
<1>6. \A n \in 1 .. l : body[n] \in Receiving =>
        IF n = 1 THEN r \in Receiving /\ Named[r] = "none"
        ELSE body[n - 1] \in Terminals \/ Named[body[n - 1]] # "none"
  <2>1. \A n \in DOMAIN body : body[n] \in Receiving =>
          IF n = 1 THEN r \in Receiving /\ Named[r] = "none"
          ELSE body[n - 1] \in Terminals \/ Named[body[n - 1]] # "none"
    BY <1>2, <1>3, TakingAssumption, Zenon
  <2>2. DOMAIN body = 1 .. l
    BY <1>5
  <2> HIDE DEF body, r
  <2> QED
    BY <2>1, <2>2
<1>7. r \in Receiving => Filled(building)
  BY <1>2, <1>4, ReadyHead
<1>8. Named[r] \in STRING /\ (r \in Taking => Filled(building))
  BY <1>2, <1>7, TakingAssumption DEF Receiving
<1>9. Nested(building, m - 1) /\ ~ ReturnsAt(building, m)
  BY <1>2, <1>4, NoneReturns
<1>10. r = todo[1]
  BY <1>2, <1>4
<1> HIDE DEF r
<1>11. /\ Tail(todo) \in Seq(Symbols) /\ m \in Nat \ {0} /\ Len(Tail(todo)) = m - 1
       /\ \A n \in 1 .. m - 1 : Tail(todo)[n] = todo[n + 1]
  BY <1>2, <1>4
<1> HIDE DEF body, m
<1>12. /\ todo' \in Seq(Symbols) /\ Len(todo') = l + (m - 1)
       /\ \A n \in 1 .. l : todo'[n] = body[n]
       /\ \A n \in 1 .. m - 1 : todo'[l + n] = todo[n + 1]
  <2>1. todo' = body \o Tail(todo)
    BY <1>3 DEF body
  <2>2. /\ todo' \in Seq(Symbols) /\ Len(todo') = l + (m - 1)
        /\ \A n \in 1 .. l + (m - 1) : todo'[n] = IF n <= l THEN body[n] ELSE Tail(todo)[n - l]
    BY <1>5, <1>11, <2>1, ConcatProperties
  <2>3. ASSUME NEW n \in 1 .. l PROVE todo'[n] = body[n]
    <3>1. n \in 1 .. l + (m - 1) /\ n <= l
      BY <1>5, <1>11
    <3> QED
      BY <2>2, <3>1
  <2>4. ASSUME NEW n \in 1 .. m - 1 PROVE todo'[l + n] = todo[n + 1]
    <3>1. l + n \in 1 .. l + (m - 1) /\ ~ (l + n <= l) /\ (l + n) - l = n
      BY <1>5, <1>11
    <3> QED
      BY <1>11, <2>2, <3>1
  <2> QED
    BY <2>2, <2>3, <2>4
<1> HIDE DEF l
(* The calls after the step: at most one more, which returns after r.      *)
<1>13. /\ \E T : building' \in Seq(Call(T))
       /\ Nested(building', l + (m - 1))
       /\ \A d : ReturnsAt(building, d) => ReturnsAt(building', d)
       /\ Named[r] # "none" => ReturnsAt(building', m - 1)
       /\ building # << >> => building' # << >> /\ building'[1].depth = building[1].depth
       /\ building = << >> /\ Named[r] # "none" => building' # << >> /\ building'[1].depth = m - 1
  <2>1. CASE Named[r] = "none"
    <3>1. building' = building
      BY <1>3, <2>1
    <3>2. Nested(building, l + (m - 1))
      BY <1>5, <1>9, <1>11 DEF Nested
    <3> QED
      BY <1>1, <2>1, <3>1, <3>2
  <2>2. CASE Named[r] # "none"
    <3> DEFINE calls == Others(r)
               c == Called(r, m - 1)
               h == Len(calls)
    <3>1. calls \in Seq(Call(S)) /\ SameDepths(building, calls) /\ Taken(r) \in Seq(S)
      BY <1>1, <1>2, <1>8, OthersDepths
    <3>2. c \in Call(S) /\ c.depth = m - 1
      BY <1>8, <1>11, <3>1 DEF Called, Call
    <3>3. building' = Append(calls, c)
      BY <1>3, <2>2
    <3> HIDE DEF calls, c
    <3>4. /\ building' \in Seq(Call(S)) /\ Len(building') = h + 1 /\ h \in Nat
          /\ building'[h + 1] = c /\ \A i \in 1 .. h : building'[i] = calls[i]
      BY <3>1, <3>2, <3>3, AppendProperties
    <3>5. Len(building) = h /\ \A i \in 1 .. h : calls[i].depth = building[i].depth
      BY <3>1 DEF SameDepths
    <3> HIDE DEF h
    <3>6. \A i \in 1 .. h : building'[i].depth = building[i].depth
      BY <3>4, <3>5
    <3>7. building'[h + 1].depth = m - 1 /\ h + 1 \in 1 .. h + 1
      BY <3>2, <3>4
    <3>8. /\ \A i \in 1 .. h : building[i].depth \in Nat /\ building[i].depth <= m - 1
          /\ \A i, j \in 1 .. h : i <= j => building[i].depth <= building[j].depth
      BY <1>9, <3>5 DEF Nested
    <3>9. Nested(building', l + (m - 1))
      <4>1. \A i \in 1 .. h + 1 : i # h + 1 => i \in 1 .. h
        BY <3>4
      <4>2. ASSUME NEW i \in 1 .. h + 1
            PROVE  building'[i].depth \in Nat /\ building'[i].depth <= m - 1
        BY <1>11, <3>6, <3>7, <3>8, <4>1
      <4>3. ASSUME NEW i \in 1 .. h + 1, NEW j \in 1 .. h + 1, i <= j
            PROVE  building'[i].depth <= building'[j].depth
        <5>1. CASE j = h + 1
          BY <3>7, <4>2, <5>1
        <5>2. CASE j # h + 1
          <6>1. i \in 1 .. h /\ j \in 1 .. h
            BY <3>4, <4>3, <5>2
          <6> QED
            BY <3>6, <3>8, <4>3, <6>1
        <5> QED
          BY <5>1, <5>2
      <4> QED
        BY <1>5, <1>11, <3>4, <4>2, <4>3 DEF Nested
    <3>10. ASSUME NEW d, ReturnsAt(building, d) PROVE ReturnsAt(building', d)
      <4>1. PICK i \in 1 .. h : building[i].depth = d
        BY <3>5, <3>10 DEF ReturnsAt
      <4>2. i \in 1 .. h + 1
        BY <3>4
      <4> QED
        BY <3>4, <3>6, <4>1, <4>2 DEF ReturnsAt
    <3>11. ReturnsAt(building', m - 1)
      BY <3>4, <3>7 DEF ReturnsAt
    <3>12. building' # << >>
      BY <3>4
    <3>13. building # << >> => 1 \in 1 .. h
      BY <1>1, <3>4, <3>5
    <3>14. building = << >> => h = 0
      BY <3>5
    <3> QED
      BY <3>4, <3>6, <3>7, <3>9, <3>10, <3>11, <3>12, <3>13, <3>14
  <2> QED
    BY <2>1, <2>2
<1>14. ASSUME NEW n \in 1 .. l, todo'[n] \in Receiving
       PROVE  Prepared(building', todo', n)
  <2>1. body[n] \in Receiving
    BY <1>12, <1>14
  <2>2. CASE n = 1
    <3>1. r \in Receiving /\ Named[r] = "none"
      BY <1>6, <2>1, <2>2
    <3> QED
      BY <1>3, <1>7, <2>2, <3>1 DEF Prepared
  <2>3. CASE n # 1
    <3>1. n - 1 \in 1 .. l /\ n > 1
      BY <1>5, <2>3
    <3>2. body[n - 1] \in Symbols /\ todo'[n - 1] = body[n - 1]
      BY <1>5, <1>12, <3>1, ElementOfSeq DEF l
    <3>3. Builds(body[n - 1])
      BY <1>6, <2>1, <2>3, <3>2 DEF Builds, Symbols
    <3> QED
      BY <3>1, <3>2, <3>3 DEF Prepared
  <2> QED
    BY <2>2, <2>3
<1>15. ASSUME NEW n \in 1 .. m - 1, todo'[l + n] \in Receiving
       PROVE  Prepared(building', todo', l + n)
  <2>1. n + 1 \in 1 .. m /\ todo[n + 1] \in Receiving /\ (n + 1) - 1 = n
        /\ m - (n + 1) + 1 = m - n /\ (l + (m - 1)) - (l + n) + 1 = m - n /\ n + 1 # 1
    BY <1>5, <1>11, <1>12, <1>15
  <2>2. Prepared(building, todo, n + 1)
    BY <2>1 DEF NestInv, Ready, m
  <2>3. Builds(todo[n]) \/ ReturnsAt(building, m - n)
    BY <2>1, <2>2 DEF Prepared, m
  <2>4. CASE ReturnsAt(building, m - n)
    BY <1>12, <1>13, <2>1, <2>4 DEF Prepared
  <2>5. CASE Builds(todo[n]) /\ n = 1
    <3>1. Named[r] # "none"
      BY <1>2, <1>10, <2>5, SymbolsSplit DEF Builds
    <3> QED
      BY <1>12, <1>13, <2>1, <2>5, <3>1 DEF Prepared
  <2>6. CASE Builds(todo[n]) /\ n # 1
    <3>1. n - 1 \in 1 .. m - 1 /\ (n - 1) + 1 = n /\ l + (n - 1) = (l + n) - 1 /\ l + n > 1
      BY <1>5, <1>11, <2>6
    <3>2. todo'[(l + n) - 1] = todo[n]
      BY <1>12, <3>1
    <3> QED
      BY <2>6, <3>1, <3>2 DEF Prepared
  <2> QED
    BY <2>3, <2>4, <2>5, <2>6
<1>16. Ready(building', todo')
  <2>1. ASSUME NEW n \in 1 .. l + (m - 1), todo'[n] \in Receiving
        PROVE  Prepared(building', todo', n)
    <3>1. CASE n <= l
      <4>1. n \in 1 .. l
        BY <1>5, <3>1
      <4> QED
        BY <1>14, <2>1, <4>1
    <3>2. CASE ~ (n <= l)
      <4>1. n - l \in 1 .. m - 1 /\ l + (n - l) = n
        BY <1>5, <1>11, <3>2
      <4> QED
        BY <1>15, <2>1, <4>1
    <3> QED
      BY <3>1, <3>2
  <2> QED
    BY <1>12, <2>1 DEF Ready
<1>17. Staged(building', tree', todo')
  <2>1. CASE building = << >>
    <3>1. todo = << Goal >> /\ tree = << >>
      BY <1>2, <2>1 DEF NestInv, Staged
    <3>2. m = 1 /\ Named[r] # "none"
      BY <1>10, <3>1, TakingAssumption DEF m
    <3> QED
      BY <1>2, <1>13, <2>1, <3>1, <3>2 DEF Staged
  <2>2. CASE building # << >>
    <3>1. tree = << >> /\ building[1].depth = 0
      BY <2>2 DEF NestInv, Staged
    <3> QED
      BY <1>2, <1>13, <2>2, <3>1 DEF Staged
  <2> QED
    BY <2>1, <2>2
<1> QED
  BY <1>12, <1>13, <1>16, <1>17 DEF NestInv

LEMMA NestInit == ParserInit => NestInv
<1> SUFFICES ASSUME ParserInit PROVE NestInv
  OBVIOUS
<1>1. todo = << Goal >> /\ building = << >> /\ tree = << >>
  BY DEF ParserInit, ParserStart
<1>2. building \in Seq(Call({})) /\ Nested(building, Len(todo))
  BY <1>1 DEF Nested
<1>3. Ready(building, todo)
  BY <1>1, TakingAssumption DEF Ready
<1> QED
  BY <1>1, <1>2, <1>3 DEF NestInv, Staged

LEMMA NestStep ==
  ParserTypeOK /\ NestInv /\ [ParserStep \/ Stopped]_parserVars => NestInv'
<1> SUFFICES ASSUME ParserTypeOK, NestInv, [ParserStep \/ Stopped]_parserVars PROVE NestInv'
  OBVIOUS
<1>1. CASE Throw \/ Finish \/ Stopped \/ UNCHANGED parserVars
  <2>1. UNCHANGED << todo, building, tree >>
    BY <1>1 DEF Throw, Finish, Stopped, parserVars
  <2> QED
    BY <2>1 DEF NestInv
<1> QED
  BY <1>1, NestReturn, NestMatch, NestPredict DEF ParserStep

-----------------------------------------------------------------------------
(* What the nodes spell: all that was consumed.                            *)

Upto(n) == [i \in 1 .. n |-> i]

Tells(S, V) ==
  IF tree = << >> THEN Reads(S, V, building, Upto(pos))
  ELSE tree[1] \in S /\ V[tree[1]] = Upto(pos)

TreeInv ==
  \E S, V, R : \E b \in Nat : IsSpelling(S, V, R, b) /\ Tells(S, V)

Accepting == status = "accepted" => todo = << >> /\ building = << >> /\ pos = Len(tokens)

LEMMA UptoNext ==
  ASSUME NEW n \in Nat
  PROVE  Upto(n) \in Seq(Nat) /\ Upto(n) \o << n + 1 >> = Upto(n + 1)
<1>1. Upto(n) \in Seq(Nat) /\ Len(Upto(n)) = n /\ \A i \in 1 .. n : Upto(n)[i] = i
  BY DEF Upto
<1>2. /\ Upto(n + 1) \in Seq(Nat) /\ Len(Upto(n + 1)) = n + 1
      /\ \A i \in 1 .. n + 1 : Upto(n + 1)[i] = i
  BY DEF Upto
<1> DEFINE s == Upto(n)
           t == Upto(n + 1)
           u == s \o << n + 1 >>
<1>3. << n + 1 >> \in Seq(Nat) /\ Len(<< n + 1 >>) = 1 /\ << n + 1 >>[1] = n + 1
  OBVIOUS
<1> HIDE DEF s, t
<1>4. /\ u \in Seq(Nat) /\ Len(u) = n + 1
      /\ \A i \in 1 .. n + 1 : u[i] = IF i <= n THEN s[i] ELSE << n + 1 >>[i - n]
  BY <1>1, <1>3, ConcatProperties DEF s
<1> HIDE DEF u
<1>5. ASSUME NEW i \in 1 .. n + 1 PROVE u[i] = t[i]
  <2>1. CASE i <= n
    <3>1. i \in 1 .. n
      BY <2>1
    <3> QED
      BY <1>1, <1>2, <1>4, <2>1, <3>1 DEF s, t
  <2>2. CASE ~ (i <= n)
    <3>1. i - n = 1 /\ i = n + 1
      BY <2>2
    <3> QED
      BY <1>2, <1>3, <1>4, <2>2, <3>1 DEF t
  <2> QED
    BY <2>1, <2>2
<1>6. u = t
  BY <1>2, <1>4, <1>5, SeqEqual DEF t
<1> QED
  BY <1>1, <1>6 DEF u, s, t

LEMMA TreeInit == ParserInit => TreeInv
<1> SUFFICES ASSUME ParserInit PROVE TreeInv
  OBVIOUS
<1> DEFINE S == {Nothing}
           V == [x \in S |-> << >>]
           R == [x \in S |-> 0]
<1>1. building = << >> /\ tree = << >> /\ pos = 0
  BY DEF ParserInit, ParserStart
<1>2. Upto(0) = << >>
  BY DEF Upto
<1>3. Nothing.at = 0 /\ Nothing.children = << >>
  BY DEF Nothing, Leaf
<1>4. Yield(V, << >>) = << >>
  BY YieldEmpty
<1>5. V \in [S -> Seq(Nat)] /\ R \in [S -> 0 .. 1 - 1] /\ Nothing \in S /\ V[Nothing] = << >>
  OBVIOUS
<1> HIDE DEF V, R
<1>6. ASSUME NEW x \in S
      PROVE  /\ x.at \in Nat /\ x.children \in Seq(S) /\ V[x] = Spelled(V, x)
             /\ \A k \in DOMAIN x.children : R[x.children[k]] < R[x]
  <2>1. x = Nothing
    OBVIOUS
  <2> HIDE DEF S
  <2> QED
    BY <1>3, <1>4, <1>5, <2>1 DEF Spelled
<1> HIDE DEF S
<1>7. IsSpelling(S, V, R, 1)
  BY <1>5, <1>6 DEF IsSpelling
<1>8. Reads(S, V, << >>, << >>)
  BY ReadsNone
<1> QED
  BY <1>1, <1>2, <1>7, <1>8 DEF TreeInv, Tells

(* A node more: what the nodes there are tell remains.                     *)
LEMMA MoreNodes ==
  ASSUME NEW S, NEW V, NEW R, NEW b, IsSpelling(S, V, R, b), NEW x, HasMore(S, V, x),
         NEW calls, NEW text, Reads(S, V, calls, text)
  PROVE  \E T, W, Q : \E c \in Nat :
           /\ IsSpelling(T, W, Q, c) /\ x \in T /\ Reads(T, W, calls, text)
           /\ W[x] = Spelled(V, x)
<1>1. PICK T, W, Q : \E c \in Nat : IsSpelling(T, W, Q, c) /\ Extends(S, V, x, T, W)
  BY DEF HasMore
<1>2. PICK c \in Nat : IsSpelling(T, W, Q, c) /\ Extends(S, V, x, T, W)
  BY <1>1
<1>3. V \in [S -> Seq(Nat)]
  BY DEF IsSpelling
<1>4. /\ S \subseteq T /\ x \in T /\ W \in [T -> Seq(Nat)] /\ \A y \in S : W[y] = V[y]
      /\ W[x] = Spelled(V, x)
  BY <1>2 DEF Extends
<1>5. Reads(T, W, calls, text)
  BY <1>3, <1>4, ReadsSame
<1> QED
  BY <1>2, <1>4, <1>5

LEMMA TreeReturn == ParserTypeOK /\ NestInv /\ TreeInv /\ Return => TreeInv'
<1> SUFFICES ASSUME ParserTypeOK, NestInv, TreeInv, Return PROVE TreeInv'
  OBVIOUS
<1> DEFINE node == Node(Top.label, Top.children)
           rest == Outer(building)
           text == Upto(pos)
<1>1. PICK S, V, R : \E b \in Nat : IsSpelling(S, V, R, b) /\ Tells(S, V)
  BY DEF TreeInv
<1>2. PICK b \in Nat : IsSpelling(S, V, R, b) /\ Tells(S, V)
  BY <1>1
<1>3. /\ building # << >> /\ pos' = pos
      /\ IF rest = << >> THEN building' = << >> /\ tree' = << node >>
         ELSE building' = AddChild(rest, node) /\ UNCHANGED tree
  BY DEF Return, Returning, Outer
<1>4. tree = << >>
  BY <1>3 DEF NestInv, Staged
<1>5. Reads(S, V, building, text)
  BY <1>2, <1>4 DEF Tells
<1>6. building \in Seq(Call(S)) /\ text \in Seq(Nat)
  BY <1>5, ReadsType
<1>7. Top.children \in Seq(S)
  <2>1. Top \in Call(S)
    BY <1>3, <1>6, OuterProps DEF Top
  <2> QED
    BY <2>1 DEF Call
<1>8. ReadsOuter(S, V, building, text)
  BY <1>3, <1>5, ReadsPop
<1>9. PICK u \in Seq(Nat) : Reads(S, V, rest, u) /\ text = u \o Yield(V, Top.children)
  BY <1>8 DEF ReadsOuter, Top
<1>10. node.at = 0 /\ node.children = Top.children
  BY DEF Node
<1>11. text' = text
  BY <1>3 DEF Upto
<1> HIDE DEF node, rest, text
<1>12. node.at \in Nat /\ node.children \in Seq(S)
  BY <1>7, <1>10
<1>13. HasMore(S, V, node)
  BY <1>2, <1>12, NewNode
<1>14. Spelled(V, node) = Yield(V, Top.children)
  BY <1>10 DEF Spelled
<1>15. PICK T, W, Q : \E c \in Nat :
           /\ IsSpelling(T, W, Q, c) /\ node \in T /\ Reads(T, W, rest, u)
           /\ W[node] = Spelled(V, node)
  BY <1>2, <1>9, <1>13, MoreNodes
<1>16. PICK c \in Nat : /\ IsSpelling(T, W, Q, c) /\ node \in T /\ Reads(T, W, rest, u)
                        /\ W[node] = Spelled(V, node)
  BY <1>15
<1>17. text = u \o W[node]
  BY <1>9, <1>14, <1>16
<1>18. W \in [T -> Seq(Nat)]
  BY <1>16 DEF IsSpelling
<1>19. CASE rest = << >>
  <2>1. u = << >>
    BY <1>16, <1>19, ReadsType
  <2>2. W[node] \in Seq(Nat)
    BY <1>16, <1>18
  <2>3. text = W[node]
    BY <1>17, <2>1, <2>2, ConcatEmptySeq
  <2>4. tree' # << >> /\ tree'[1] = node
    <3>1. tree' = << node >>
      BY <1>3, <1>19
    <3>2. << node >> # << >> /\ << node >>[1] = node
      OBVIOUS
    <3> QED
      BY <3>1, <3>2
  <2>5. Tells(T, W)'
    BY <1>11, <1>16, <2>3, <2>4 DEF Tells, text
  <2> QED
    BY <1>16, <2>5 DEF TreeInv
<1>20. CASE rest # << >>
  <2>1. Reads(T, W, AddChild(rest, node), u \o W[node])
    BY <1>16, <1>18, <1>20, ReadsAdd
  <2>2. building' = AddChild(rest, node) /\ tree' = << >>
    BY <1>3, <1>4, <1>20
  <2>3. Tells(T, W)'
    BY <1>11, <1>17, <2>1, <2>2 DEF Tells, text
  <2> QED
    BY <1>16, <2>3 DEF TreeInv
<1> QED
  BY <1>19, <1>20

LEMMA TreeMatch == ParserTypeOK /\ NestInv /\ TreeInv /\ Match => TreeInv'
<1> SUFFICES ASSUME ParserTypeOK, NestInv, TreeInv, Match PROVE TreeInv'
  OBVIOUS
<1> DEFINE leaf == Leaf(Head(todo), pos + 1)
           text == Upto(pos)
<1>1. PICK S, V, R : \E b \in Nat : IsSpelling(S, V, R, b) /\ Tells(S, V)
  BY DEF TreeInv
<1>2. PICK b \in Nat : IsSpelling(S, V, R, b) /\ Tells(S, V)
  BY <1>1
<1>3. /\ todo # << >> /\ Head(todo) \notin Rules
      /\ pos' = pos + 1 /\ building' = AddChild(building, leaf) /\ tree' = tree
  BY DEF Match
<1>4. building # << >> /\ tree = << >>
  <2>1. todo # << Goal >>
    BY <1>3, TableAssumption
  <2> QED
    BY <1>3, <2>1 DEF NestInv, Staged
<1>5. Reads(S, V, building, text)
  BY <1>2, <1>4 DEF Tells
<1>6. pos \in Nat
  BY DEF ParserTypeOK
<1>7. leaf.at = pos + 1 /\ leaf.children = << >>
  BY DEF Leaf
<1> HIDE DEF leaf
<1>8. leaf.at \in Nat /\ leaf.children \in Seq(S)
  BY <1>6, <1>7
<1>9. HasMore(S, V, leaf)
  BY <1>2, <1>8, NewNode
<1>10. Spelled(V, leaf) = << pos + 1 >>
  BY <1>6, <1>7 DEF Spelled
<1> HIDE DEF text
<1>11. PICK T, W, Q : \E c \in Nat :
           /\ IsSpelling(T, W, Q, c) /\ leaf \in T /\ Reads(T, W, building, text)
           /\ W[leaf] = Spelled(V, leaf)
  BY <1>2, <1>5, <1>9, MoreNodes
<1>12. PICK c \in Nat : /\ IsSpelling(T, W, Q, c) /\ leaf \in T /\ Reads(T, W, building, text)
                        /\ W[leaf] = Spelled(V, leaf)
  BY <1>11
<1>13. W \in [T -> Seq(Nat)]
  BY <1>12 DEF IsSpelling
<1>14. Reads(T, W, AddChild(building, leaf), text \o W[leaf])
  BY <1>4, <1>12, <1>13, ReadsAdd
<1>15. text \o W[leaf] = Upto(pos + 1)
  BY <1>6, <1>10, <1>12, UptoNext DEF text
<1>16. Upto(pos + 1) = Upto(pos)'
  BY <1>3 DEF Upto
<1>17. Tells(T, W)'
  BY <1>3, <1>4, <1>14, <1>15, <1>16 DEF Tells
<1> QED
  BY <1>12, <1>17 DEF TreeInv

LEMMA TreePredict == ParserTypeOK /\ NestInv /\ TreeInv /\ Predict => TreeInv'
<1> SUFFICES ASSUME ParserTypeOK, NestInv, TreeInv, Predict PROVE TreeInv'
  OBVIOUS
<1> DEFINE r == Head(todo)
           c == Called(r, Len(todo) - 1)
           text == Upto(pos)
<1>1. PICK S, V, R : \E b \in Nat : IsSpelling(S, V, R, b) /\ Tells(S, V)
  BY DEF TreeInv
<1>2. PICK b \in Nat : IsSpelling(S, V, R, b) /\ Tells(S, V)
  BY <1>1
<1>3. /\ todo # << >> /\ r \in Rules /\ ~ Returning
      /\ building' = IF Named[r] = "none" THEN building ELSE Append(Others(r), c)
      /\ pos' = pos /\ tree' = tree
  BY DEF Predict, Working, Called
<1>4. tree = << >>
  BY <1>3 DEF NestInv, Staged
<1>5. Reads(S, V, building, text)
  BY <1>2, <1>4 DEF Tells
<1>6. building \in Seq(Call(S)) /\ text \in Seq(Nat)
  BY <1>5, ReadsType
<1>7. V \in [S -> Seq(Nat)]
  BY <1>2 DEF IsSpelling
<1>8. todo \in Seq(Symbols) /\ Len(todo) - 1 \in Nat
  <2>1. todo \in Seq(Symbols)
    BY DEF ParserTypeOK
  <2> QED
    BY <1>3, <2>1
<1>9. r \in Taking => Filled(building)
  BY <1>3, <1>8, ReadyHead DEF Receiving
<1>10. Taken(r) \in Seq(S)
  BY <1>3, <1>6, <1>9, OthersDepths
<1>11. c \in Call(S) /\ c.children = Taken(r)
  <2>1. Named[r] \in STRING
    BY <1>3, TakingAssumption
  <2> HIDE DEF r
  <2> QED
    BY <1>8, <1>10, <2>1 DEF Called, Call
<1>12. text' = text
  BY <1>3 DEF Upto
<1> HIDE DEF r, c, text
<1>13. Reads(S, V, building', text)
  <2>1. CASE Named[r] = "none"
    BY <1>3, <1>5, <2>1
  <2>2. CASE Named[r] # "none" /\ r \in Taking
    <3>1. building # << >> /\ Top.children # << >>
      BY <1>9, <2>2 DEF Filled, Top
    <3>2. Reads(S, V, Append(Others(r), c), text)
      BY <1>5, <1>7, <1>11, <2>2, <3>1, ReadsTake
    <3> QED
      BY <1>3, <2>2, <3>2
  <2>3. CASE Named[r] # "none" /\ r \notin Taking
    <3>1. Others(r) = building /\ c.children = << >>
      BY <1>11, <2>3 DEF Others, Taken
    <3>2. Reads(S, V, Append(building, c), text \o Yield(V, << >>))
      BY <1>5, <1>7, <1>11, <3>1, ReadsPush
    <3>3. text \o Yield(V, << >>) = text
      BY <1>6, YieldEmpty, ConcatEmptySeq
    <3> QED
      BY <1>3, <2>3, <3>1, <3>2, <3>3
  <2> QED
    BY <2>1, <2>2, <2>3
<1>14. tree' = << >>
  BY <1>3, <1>4
<1>15. Tells(S, V)'
  BY <1>12, <1>13, <1>14 DEF Tells, text
<1> QED
  BY <1>2, <1>15 DEF TreeInv

LEMMA TreeStep ==
  ParserTypeOK /\ NestInv /\ TreeInv /\ [ParserStep \/ Stopped]_parserVars => TreeInv'
<1> SUFFICES ASSUME ParserTypeOK, NestInv, TreeInv, [ParserStep \/ Stopped]_parserVars
             PROVE  TreeInv'
  OBVIOUS
<1>1. CASE Throw \/ Finish \/ Stopped \/ UNCHANGED parserVars
  <2>1. UNCHANGED << pos, building, tree >>
    BY <1>1 DEF Throw, Finish, Stopped, parserVars
  <2> QED
    BY <2>1 DEF TreeInv, Tells, Upto
<1> QED
  BY <1>1, TreeReturn, TreeMatch, TreePredict DEF ParserStep

LEMMA AcceptingStep ==
  ParserTypeOK /\ NestInv /\ Accepting /\ [ParserStep \/ Stopped]_parserVars => Accepting'
<1> SUFFICES ASSUME ParserTypeOK, NestInv, Accepting, [ParserStep \/ Stopped]_parserVars
             PROVE  Accepting'
  OBVIOUS
<1>1. CASE Return \/ Predict \/ Match \/ Throw
  <2>1. status' # "accepted"
    BY <1>1 DEF Return, Predict, Match, Throw, Working
  <2> QED
    BY <2>1 DEF Accepting
<1>2. CASE Finish
  <2>1. /\ todo = << >> /\ ~ Returning /\ (status' = "accepted" => pos = Len(tokens))
        /\ UNCHANGED << tokens, pos, todo, building, tree >>
    BY <1>2 DEF Finish, Working
  <2>2. building = << >>
    <3>1. SUFFICES ASSUME building # << >> PROVE FALSE
      OBVIOUS
    <3>2. PICK S : building \in Seq(Call(S))
      BY DEF NestInv
    <3>3. Len(building) \in 1 .. Len(building)
      BY <3>1, <3>2
    <3>4. Top.depth \in Nat /\ Top.depth <= Len(todo)
      BY <3>3 DEF NestInv, Nested, Top
    <3>5. Top.depth = Len(todo)
      BY <2>1, <3>4
    <3> QED
      BY <2>1, <3>1, <3>5 DEF Returning
  <2> QED
    BY <2>1, <2>2 DEF Accepting
<1>3. CASE Stopped \/ UNCHANGED parserVars
  BY <1>3 DEF Stopped, parserVars, Accepting
<1> QED
  BY <1>1, <1>2, <1>3 DEF ParserStep

LEMMA TellsAll == ParserTypeOK /\ NestInv /\ TreeInv /\ Accepting => TreeSpellsTokens
<1> SUFFICES ASSUME ParserTypeOK, NestInv, TreeInv, Accepting, status = "accepted"
             PROVE  Leaves(tree[1]) = [n \in DOMAIN tokens |-> n]
  BY DEF TreeSpellsTokens
<1>1. PICK S, V, R : \E b \in Nat : IsSpelling(S, V, R, b) /\ Tells(S, V)
  BY DEF TreeInv
<1>2. PICK b \in Nat : IsSpelling(S, V, R, b) /\ Tells(S, V)
  BY <1>1
<1>3. todo = << >> /\ building = << >> /\ pos = Len(tokens)
  BY DEF Accepting
<1>4. tree # << >>
  BY <1>3 DEF NestInv, Staged
<1>5. tree[1] \in S /\ V[tree[1]] = Upto(pos)
  BY <1>2, <1>4 DEF Tells
<1>6. Leaves(tree[1]) = V[tree[1]]
  BY <1>2, <1>5, LeavesYield
<1>7. DOMAIN tokens = 1 .. pos
  BY <1>3 DEF ParserTypeOK
<1> QED
  BY <1>5, <1>6, <1>7 DEF Upto

(* Read from left to right, the leaves of an accepted program's tree are   *)
(* the tokens, each once and in order: no node is lost, doubled or put in  *)
(* another place where the variable that begins a statement is handed to   *)
(* the assignment or the call (parseStatement and parseAssignmentStatement *)
(* in parser.cpp).                                                         *)
THEOREM TreesSpellTokens == ParserSpec => []TreeSpellsTokens
<1>1. ParserInit => ParserTypeOK /\ NestInv /\ TreeInv /\ Accepting
  BY TypeInit, NestInit, TreeInit DEF ParserInit, ParserStart, Accepting
<1>2. /\ ParserTypeOK /\ NestInv /\ TreeInv /\ Accepting
      /\ [ParserStep \/ Stopped]_parserVars
      => (ParserTypeOK /\ NestInv /\ TreeInv /\ Accepting)'
  BY TypeStep, NestStep, TreeStep, AcceptingStep
<1> QED
  BY <1>1, <1>2, TellsAll, PTL DEF ParserSpec

=============================================================================
