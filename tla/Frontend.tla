------------------------------- MODULE Frontend -------------------------------
(***************************************************************************)
(* The parser and the AST builder together, as main.cpp calls them: the    *)
(* tree of an accepted input is turned into a syntax tree.  An input is a  *)
(* sequence of token types alone, or a program whose tree is known, in one *)
(* of the two styles of Unparse.                                           *)
(***************************************************************************)
EXTENDS Parser, AstBuilder

W == INSTANCE Unparse

CONSTANTS
  Programs,    \* a sequence of syntax trees
  Sentences,   \* sequences of token types the grammar derives
  SampleValue  \* from token types to a value of such a token

VARIABLES
  derived,   \* the input is known to be derived by the grammar
  written,   \* which program was written, 0 for an input that is none
  ast        \* what the AST builder made of the tree, Nil before

frontendVars == << parserVars, values, derived, written, ast >>

TypesIn(source) == [n \in DOMAIN source |-> source[n].type]
ValuesIn(source) == [n \in DOMAIN source |-> source[n].value]

FrontendInit ==
  /\ ParserStart
  /\ ast = Ast!Nil
  /\ \/ /\ \/ tokens \in Sentences /\ derived = TRUE
           \/ tokens \in Inputs /\ derived = FALSE
        /\ values = [n \in DOMAIN tokens |-> SampleValue[tokens[n]]]
        /\ written = 0
     \/ \E k \in DOMAIN Programs, spread \in BOOLEAN :
          LET source == W!Written(Programs[k], spread) IN
          /\ tokens = TypesIn(source)
          /\ values = ValuesIn(source)
          /\ derived = TRUE
          /\ written = k

(* makeAstRootOnly: only where the parser returned a tree.                 *)
BuildAst ==
  /\ status = "accepted" /\ ast = Ast!Nil
  /\ ast' = Build(tree[1])
  /\ UNCHANGED << parserVars, values, derived, written >>

FrontendStep == (ParserStep /\ UNCHANGED << values, derived, written, ast >>) \/ BuildAst

Idle == (status = "rejected" \/ ~ Ast!IsNil(ast)) /\ UNCHANGED frontendVars

FrontendSpec ==
  FrontendInit /\ [][FrontendStep \/ Idle]_frontendVars /\ WF_frontendVars(FrontendStep)

-----------------------------------------------------------------------------
(* The parser decides by at most three tokens and never goes back, and     *)
(* still rejects nothing that the grammar derives, whichever alternatives  *)
(* the derivation takes.                                                   *)
AcceptsSentences == derived => status # "rejected"

(* A written program comes back as the tree it was written from: no part   *)
(* is lost, and operators, signs, selectors, else parts and returns belong *)
(* where they did.                                                         *)
RoundTrip == written # 0 /\ ~ Ast!IsNil(ast) => ast = Programs[written]

(* Every input is rejected or turned into a syntax tree.                   *)
Decided == <>(status = "rejected" \/ ~ Ast!IsNil(ast))
=============================================================================
