------------------------------- MODULE Scopes -------------------------------
(***************************************************************************)
(* What the symbol table promises its clients: nested scopes.  A scope     *)
(* maps a name to its one declaration; a name means its declaration in the *)
(* innermost open scope that has one; a scope that was closed keeps what   *)
(* it declared (the fields of a record, the parameters of a subprogram).   *)
(***************************************************************************)
EXTENDS Integers, Sequences, FiniteSetsExt

CONSTANTS
  Keys,     \* the names, spelling variants already identified
  Global,   \* the scope that exists before the program: name -> declaration
  Absent    \* no declaration

VARIABLES
  contents,   \* the scopes, in the order they were opened
  open,       \* the indices of the open ones, outermost first
  next,       \* the number of the next declaration
  answer      \* what the last operation was asked, and what it found

vars == << contents, open, next, answer >>

Innermost == open[Len(open)]

Meaning(k) ==
  LET hits == {d \in 1 .. Len(open) : contents[open[d]][k] # Absent}
  IN  IF hits = {} THEN Absent ELSE contents[open[Max(hits)]][k]

(* Scope 0 stands for the search through the open scopes.                  *)
Answer(op, s, k, declaration) ==
  [op |-> op, scope |-> s, key |-> k, found |-> declaration]

Init ==
  /\ contents = << Global >>
  /\ open = << 1 >>
  /\ next \in Nat
  /\ answer = << >>

(* A name is declared at most once per scope.                              *)
Declare(k) ==
  /\ IF contents[Innermost][k] = Absent
     THEN /\ contents' = [contents EXCEPT ![Innermost][k] = next]
          /\ answer' = Answer("declare", Innermost, k, next)
          /\ next' = next + 1
     ELSE /\ answer' = Answer("declare", Innermost, k, Absent)
          /\ UNCHANGED << contents, next >>
  /\ UNCHANGED open

Enter ==
  /\ contents' = Append(contents, [k \in Keys |-> Absent])
  /\ open' = Append(open, Len(contents) + 1)
  /\ answer' = << >>
  /\ UNCHANGED next

Leave ==
  /\ Len(open) > 1
  /\ open' = SubSeq(open, 1, Len(open) - 1)
  /\ answer' = << >>
  /\ UNCHANGED << contents, next >>

Resolve(k) ==
  /\ answer' = Answer("resolve", 0, k, Meaning(k))
  /\ UNCHANGED << contents, open, next >>

ResolveIn(s, k) ==
  /\ answer' = Answer("resolve", s, k, contents[s][k])
  /\ UNCHANGED << contents, open, next >>

Next ==
  \/ \E k \in Keys : Declare(k) \/ Resolve(k)
  \/ \E s \in 1 .. Len(contents), k \in Keys : ResolveIn(s, k)
  \/ Enter
  \/ Leave

Spec == Init /\ [][Next]_vars

=============================================================================
