------------------------------- MODULE Grammar -------------------------------
(***************************************************************************)
(* What a grammar derives, without any look-ahead: the leftmost            *)
(* nonterminal of a form is replaced by one of its bodies, whichever.      *)
(***************************************************************************)
EXTENDS Integers, Sequences

CONSTANTS
  Bodies,   \* from nonterminals to sets of sequences of symbols
  Goal      \* the nonterminal everything is derived from

VARIABLE form

IsNonTerminal(symbol) == symbol \in DOMAIN Bodies

Init == form = << Goal >>

Derive(n, body) ==
  /\ IsNonTerminal(form[n])
  /\ \A m \in 1 .. n - 1 : ~ IsNonTerminal(form[m])
  /\ form' = SubSeq(form, 1, n - 1) \o body \o SubSeq(form, n + 1, Len(form))

Next == \E n \in 1 .. Len(form) :
          IsNonTerminal(form[n]) /\ \E body \in Bodies[form[n]] : Derive(n, body)

Spec == Init /\ [][Next]_form
=============================================================================
