----------------------------- MODULE MCScoping -----------------------------
(***************************************************************************)
(* Programs of up to three declarations in up to four blocks, over two     *)
(* spellings of one name and a predefined one.                             *)
(***************************************************************************)
EXTENDS Scoping

MCIdentifiers == {"x", "X", "integer"}

MCNames ==
  MCIdentifiers \cup {"real", "char", "boolean", "string", "false", "true",
                      "write", "writeln", "read", "readln"}

MCFolded == [n \in MCNames |-> IF n = "X" THEN "x" ELSE n]

=============================================================================
