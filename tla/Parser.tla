-------------------------------- MODULE Parser --------------------------------
(***************************************************************************)
(* The parser of parser.cpp as a machine that works off a table of rules   *)
(* (see Syntax).  todo is the stack of calls: what the running functions   *)
(* have still to read.  building holds the nodes of the functions that     *)
(* have not returned; a function returns when todo is as short as it was   *)
(* before the call, less the call itself.                                  *)
(***************************************************************************)
EXTENDS Integers, Sequences, SequencesExt

CONSTANTS
  Terminals,  \* the types of tokens
  Table,      \* from rules to sequences of alternatives [look, body]
  Named,      \* from rules to the name of their node, "none" for no node
  Taking,     \* the rules whose node takes the node built last
  Goal,       \* the rule of a whole program
  Inputs      \* the sequences of token types to be parsed

Rules == DOMAIN Table
Symbols == Terminals \cup Rules

ASSUME TableAssumption ==
  /\ Goal \in Rules
  /\ Rules \cap Terminals = {} /\ "EOF" \notin Terminals
  /\ \A r \in Rules : \A k \in DOMAIN Table[r] : Table[r][k].body \in Seq(Symbols)

ASSUME InputsAssumption == Inputs \subseteq Seq(Terminals)

(* Rules called where a node was just built: those that take it, and loops *)
(* or parts of a function that start with one of those.                    *)
Receiving ==
  Taking \cup {r \in Rules : /\ Named[r] = "none"
                            /\ \E k \in DOMAIN Table[r] :
                                 Table[r][k].body # << >> /\ Table[r][k].body[1] \in Taking}

(* In every body a rule that receives a node comes behind one that builds. *)
ASSUME TakingAssumption ==
  /\ Named \in [Rules -> STRING] /\ Taking \subseteq Rules
  /\ Named[Goal] # "none" /\ Goal \notin Receiving
  /\ \A r \in Rules : \A k \in DOMAIN Table[r] : \A n \in DOMAIN Table[r][k].body :
       Table[r][k].body[n] \in Receiving =>
         IF n = 1 THEN r \in Receiving /\ Named[r] = "none"
         ELSE \/ Table[r][k].body[n - 1] \in Terminals
              \/ Named[Table[r][k].body[n - 1]] # "none"

VARIABLES
  tokens,    \* the types of the tokens (COMMENTs were dropped by main.cpp)
  pos,       \* how many of them have been consumed
  todo,      \* what remains to be read, the next first
  building,  \* nodes under construction: name, depth of todo to return at, children
  tree,      \* the finished tree, as a sequence of at most one node
  status     \* "parsing", "accepted", or "rejected" after a ParseException

parserVars == << tokens, pos, todo, building, tree, status >>

-----------------------------------------------------------------------------
(* Nodes of the tree.  A leaf names its token by its place.                *)

Node(label, children) == [label |-> label, at |-> 0, children |-> children]
Leaf(type, n)         == [label |-> type, at |-> n, children |-> << >>]

Top == building[Len(building)]

AddChild(nodes, child) ==
  [nodes EXCEPT ![Len(nodes)].children = Append(@, child)]

(* The type of the n-th token (current, lookAhead).                        *)
TypeAt(n) == IF n <= Len(tokens) THEN tokens[n] ELSE "EOF"

(* Mutant: one token of look-ahead decides.                                *)
HoldsOfNext(look) == look # << >> => TypeAt(pos + 1) \in look[1]

Holds(look) == \A n \in 1 .. Len(look) : TypeAt(pos + n) \in look[n]

IsChosen(r, k) ==
  /\ Holds(Table[r][k].look)
  /\ \A m \in 1 .. k - 1 : ~ Holds(Table[r][m].look)

-----------------------------------------------------------------------------
Returning == building # << >> /\ Top.depth = Len(todo)

Working == status = "parsing" /\ ~ Returning

(* A function returns its node, which its caller adds to its own.          *)
Return ==
  /\ status = "parsing" /\ Returning
  /\ LET node == Node(Top.label, Top.children)
         rest == SubSeq(building, 1, Len(building) - 1)
     IN  IF rest = << >> THEN building' = << >> /\ tree' = << node >>
         ELSE building' = AddChild(rest, node) /\ UNCHANGED tree
  /\ UNCHANGED << tokens, pos, todo, status >>

(* The children a new node starts with, and the nodes without them.        *)
Taken(r) == IF r \in Taking THEN << Top.children[Len(Top.children)] >> ELSE << >>

(* Mutant: the node handed to the next one stays where it was.             *)
OthersAll(r) == building

Others(r) ==
  IF r \in Taking
  THEN [building EXCEPT ![Len(building)].children = SubSeq(@, 1, Len(@) - 1)]
  ELSE building

(* Mutant: a loop goes on when its condition fails.                        *)
PredictForever ==
  /\ Working /\ todo # << >> /\ Head(todo) \in Rules
  /\ LET r == Head(todo) IN
     \E k \in DOMAIN Table[r] :
       /\ IsChosen(r, k)
       /\ todo' = IF Table[r][k].body = << >> THEN todo ELSE Table[r][k].body \o Tail(todo)
       /\ building' = IF Named[r] = "none" \/ Table[r][k].body = << >> THEN building
                      ELSE Append(Others(r), [label |-> Named[r], depth |-> Len(todo) - 1,
                                              children |-> Taken(r)])
  /\ UNCHANGED << tokens, pos, tree, status >>

(* A function is called, or a loop or an option is entered or passed.      *)
Predict ==
  /\ Working /\ todo # << >> /\ Head(todo) \in Rules
  /\ LET r == Head(todo) IN
     \E k \in DOMAIN Table[r] :
       /\ IsChosen(r, k)
       /\ todo' = Table[r][k].body \o Tail(todo)
       /\ building' = IF Named[r] = "none" THEN building
                      ELSE Append(Others(r), [label |-> Named[r], depth |-> Len(todo) - 1,
                                              children |-> Taken(r)])
  /\ UNCHANGED << tokens, pos, tree, status >>

(* Mutant: the type of the token is not compared.                          *)
MatchAny ==
  /\ Working /\ todo # << >> /\ Head(todo) \notin Rules
  /\ pos < Len(tokens)
  /\ pos' = pos + 1 /\ todo' = Tail(todo)
  /\ building' = AddChild(building, Leaf(Head(todo), pos + 1))
  /\ UNCHANGED << tokens, tree, status >>

(* Mutant: the end of the input is taken for any token.                    *)
MatchPastEnd ==
  /\ Working /\ todo # << >> /\ Head(todo) \notin Rules
  /\ TypeAt(pos + 1) \in {Head(todo), "EOF"}
  /\ pos' = pos + 1 /\ todo' = Tail(todo)
  /\ building' = AddChild(building, Leaf(Head(todo), pos + 1))
  /\ UNCHANGED << tokens, tree, status >>

(* expectNode and termNode.                                                *)
Match ==
  /\ Working /\ todo # << >> /\ Head(todo) \notin Rules
  /\ TypeAt(pos + 1) = Head(todo)
  /\ pos' = pos + 1
  /\ todo' = Tail(todo)
  /\ building' = AddChild(building, Leaf(Head(todo), pos + 1))
  /\ UNCHANGED << tokens, tree, status >>

(* ParseException.                                                         *)
Throw ==
  /\ Working /\ todo # << >>
  /\ LET next == Head(todo) IN
     IF next \in Rules THEN \A k \in DOMAIN Table[next] : ~ Holds(Table[next][k].look)
     ELSE TypeAt(pos + 1) # next
  /\ status' = "rejected"
  /\ UNCHANGED << tokens, pos, todo, building, tree >>

(* parse: nothing may follow the program.                                  *)
Finish ==
  /\ Working /\ todo = << >>
  /\ status' = IF pos = Len(tokens) THEN "accepted" ELSE "rejected"
  /\ UNCHANGED << tokens, pos, todo, building, tree >>

Stopped == status # "parsing" /\ UNCHANGED parserVars

-----------------------------------------------------------------------------
ParserStart ==
  /\ pos = 0
  /\ todo = << Goal >>
  /\ building = << >>
  /\ tree = << >>
  /\ status = "parsing"

ParserInit == tokens \in Inputs /\ ParserStart

ParserStep == Return \/ Predict \/ Match \/ Throw \/ Finish

ParserSpec == ParserInit /\ [][ParserStep \/ Stopped]_parserVars /\ WF_parserVars(ParserStep)

-----------------------------------------------------------------------------
ParserTypeOK ==
  /\ tokens \in Seq(Terminals)
  /\ pos \in 0 .. Len(tokens)
  /\ todo \in Seq(Symbols)
  /\ status \in {"parsing", "accepted", "rejected"}

(* Only what the grammar derives is accepted, and nothing is skipped or    *)
(* read twice on the way: what was consumed, followed by what remains to   *)
(* be read, is at all times a form the grammar derives.                    *)
Consumed == SubSeq(tokens, 1, pos)

Derivation ==
  INSTANCE Grammar WITH
    Bodies <- [r \in Rules |-> {Table[r][k].body : k \in DOMAIN Table[r]}],
    Goal <- Goal, form <- Consumed \o todo

DerivesTokens == Derivation!Spec

(* The node of a tree at the end of a path: which child of which child.    *)
Nothing == Leaf("none", 0)

NthChild(node, k) == IF k \in DOMAIN node.children THEN node.children[k] ELSE Nothing

At(root, path) ==
  LET at[n \in 0 .. Len(path)] == IF n = 0 THEN root ELSE NthChild(at[n - 1], path[n])
  IN  at[Len(path)]

(* The places of the leaves, from left to right.                           *)
Leaves(root) ==
  LET leaves[path \in Seq(Nat)] ==
        LET node == At(root, path) IN
        IF node.at > 0 THEN << node.at >>
        ELSE FlattenSeq([k \in DOMAIN node.children |-> leaves[Append(path, k)]])
  IN  leaves[<< >>]

(* The tree is a tree of the whole input: read from left to right its      *)
(* leaves are the tokens, although a node may be handed to the next one.   *)
TreeSpellsTokens == status = "accepted" => Leaves(tree[1]) = [n \in DOMAIN tokens |-> n]

(* The parser stops on every sequence of tokens: no function calls itself  *)
(* before it has consumed a token.                                         *)
ParserStops == <>(status # "parsing")
=============================================================================
