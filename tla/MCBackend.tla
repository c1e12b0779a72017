----------------------------- MODULE MCBackend -----------------------------
(***************************************************************************)
(* Sources compiled and run on a small machine (IntMax 127, 45 slots).     *)
(* The sources are those of SamplePrograms.                                *)
(***************************************************************************)
EXTENDS Backend, SamplePrograms

MCWords == {Number(n) : n \in {0, 1, 2, 3, 6, 300}} \cup {Alpha, True}

MCCharCode ==
  [w \in MCWords |-> CASE w = Alpha -> 97 [] w = True -> 116 [] OTHER -> 48 + (w.num % 10)]

(* No source compares texts.                                               *)
MCTextBefore(s, t) == FALSE

MCInputs ==
  {<< << Number(a), Number(b) >>, << Number(1) >>, << True, Alpha >>, << Alpha >> >> :
     a \in {0, 1, 2, 3, 6}, b \in {0, 1, 2}}
  \cup { << >>, << << Number(2), Alpha >> >>, << << Number(1) >>, << Number(2), Number(1) >> >>,
         << << Number(300) >> >>,
         << << Number(1), Number(1) >>, << Number(2) >>, << Alpha, Number(2) >> >> }

MCQuotient == {Halving}
MCRecord   == {NamedRecord}

MCSources ==
  {Factorial, Nesting, Siblings, Arrays, Loops, Cases, Records, Conditions, Returns, Locals,
   Numbers, Reads, Runaway, Counting}

(* Every source is accepted and compiled.                                  *)
ASSUME SourcesAssumption ==
  \A s \in Sources : Accepted(s) /\ ~Compiled(s).failed /\ Compiled(s).program \in Program

-----------------------------------------------------------------------------

Spellings == {"A", "C", "F", "X", "G"}

MCNames ==
  {"integer", "real", "char", "boolean", "string", "false", "true",
   "write", "writeln", "read", "readln",
   "p", "a", "b", "c", "f", "g", "i", "j", "k", "m", "n", "r", "s", "x", "y", "z"} \cup Spellings

MCFolded ==
  [n \in MCNames |-> CASE n = "A" -> "a" [] n = "C" -> "c" [] n = "F" -> "f"
                       [] n = "X" -> "x" [] n = "G" -> "g" [] OTHER -> n]

=============================================================================
