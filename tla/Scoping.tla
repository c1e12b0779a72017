------------------------------ MODULE Scoping ------------------------------
(***************************************************************************)
(* The symbol table in use: the declarations, lookups and scope changes    *)
(* the scope builder makes while it walks a program, in any order a        *)
(* program can ask for them.  It implements Scopes.                        *)
(***************************************************************************)
EXTENDS SymbolTable

CONSTANTS
  Identifiers,   \* the names the program declares and uses
  MaxEntries,    \* bound on the declarations of the program
  MaxBlocks      \* bound on its blocks

ASSUME IdentifiersAssumption == Identifiers \subseteq Names

VARIABLES
  table,    \* symTab
  answer    \* the last declareIdentifier or lookup, with what it returned

vars == << table, answer >>

(* Block -1 stands for the search through the open blocks.                 *)
Answer(op, block, name, index) ==
  [op |-> op, scope |-> block + 1, key |-> Folded[name], found |-> index]

Init ==
  /\ table = InitPredefined(EmptyTable)
  /\ answer = << >>

(* declareIdentifier: refused when the block has the name already.  What   *)
(* is declared (obj, type, address) has no influence on the scopes.        *)
DeclareIdentifier(name) ==
  /\ Len(table.tab) < FirstUserIndex + MaxEntries
  /\ IF LookupCurrentScope(table, name) # NO_INDEX
     THEN /\ answer' = Answer("declare", CurrentBlock(table), name, NO_INDEX)
          /\ UNCHANGED table
     ELSE /\ table' = Insert(table, name, "variable", "Integer", NO_INDEX, 0)
          /\ answer' = Answer("declare", CurrentBlock(table), name, Inserted(table'))

(* A subprogram, or the fields of a record type.                           *)
EnterBlock ==
  /\ Len(table.btab) < MaxBlocks
  /\ table' = PushBlock(table)
  /\ answer' = << >>

(* The builder closes what it opened.                                      *)
LeaveBlock ==
  /\ Len(table.scopes) > 1
  /\ table' = PopBlock(table)
  /\ answer' = << >>

LookupIdentifier(name) ==
  /\ answer' = Answer("resolve", NO_INDEX, name, Lookup(table, name))
  /\ UNCHANGED table

(* A field of a record (any block, open or closed), or a global name that  *)
(* a parameter must not have.                                              *)
LookupIn(block, name) ==
  /\ answer' = Answer("resolve", block, name, LookupBlockScope(table, block, name))
  /\ UNCHANGED table

Next ==
  \/ \E name \in Identifiers :
       \/ DeclareIdentifier(name)
       \/ LookupIdentifier(name)
       \/ \E block \in 0 .. Len(table.btab) - 1 : LookupIn(block, name)
  \/ EnterBlock
  \/ LeaveBlock

Spec == Init /\ [][Next]_vars

-----------------------------------------------------------------------------
(* The structure the walks over the table rely on.                         *)

Indices == 0 .. Len(table.tab) - 1

Entry ==
  [identifier : Names \cup {""}, link : Int, obj : ObjectKind, type : TypeKind,
   ref : Int, lev : Int, adr : Int]

Block == [last : Int, lpar : Int, psze : Int, vsze : Int]

ArrayType ==
  [xtyp : TypeKind, etyp : TypeKind, eref : Int, low : Int, high : Int,
   elsz : Int, size : Int]

Table ==
  [tab : Seq(Entry), btab : Seq(Block), atab : Seq(ArrayType),
   scopes : Seq(Nat), level : Nat]

(* What answer is, ImplementsScopes says.                                  *)
TypeOK == table \in Table

(* Every chain of links descends, so that every lookup ends; and it never  *)
(* leaves the declarations of one nesting level.                           *)
LinksDescend ==
  \A i \in Indices :
    LET link == TabAt(table, i).link IN
    /\ link \in {NO_INDEX} \cup 0 .. i - 1
    /\ link # NO_INDEX => TabAt(table, link).lev = TabAt(table, i).lev

(* The level counts the open blocks around the current one, blocks are     *)
(* opened once, and the youngest entry of an open block carries the depth  *)
(* of the block: what the code generator takes for the static distance.    *)
LevelsAreDepths ==
  /\ Len(table.scopes) = table.level + 1
  /\ table.scopes[1] = 0
  /\ \A d \in 1 .. Len(table.scopes) : table.scopes[d] \in 0 .. Len(table.btab) - 1
  /\ \A d, e \in 1 .. Len(table.scopes) : d < e => table.scopes[d] < table.scopes[e]
  /\ \A d \in 1 .. Len(table.scopes) :
       LET last == BTabAt(table, table.scopes[d]).last IN
       last # NO_INDEX => TabAt(table, last).lev = d - 1

(* No declaration belongs to two blocks, or to none twice: the heads of    *)
(* the chains and the links lead to pairwise different entries.            *)
ChainsAreDisjoint ==
  LET Last(b) == BTabAt(table, b).last
      Link(i) == TabAt(table, i).link
  IN
  /\ \A b \in 0 .. Len(table.btab) - 1 : Last(b) \in {NO_INDEX} \cup Indices
  /\ \A b, c \in 0 .. Len(table.btab) - 1 : b # c /\ Last(b) = Last(c) => Last(b) = NO_INDEX
  /\ \A i, j \in Indices : i # j /\ Link(i) = Link(j) => Link(i) = NO_INDEX
  /\ \A b \in 0 .. Len(table.btab) - 1, i \in Indices : Last(b) = Link(i) => Last(b) = NO_INDEX

-----------------------------------------------------------------------------
(* The nested scopes a table stands for: the declarations a walk along the *)
(* links of each block finds.                                              *)

AbstractKeys == {Folded[n] : n \in Identifiers}

ScopeOf(t, block) == [k \in AbstractKeys |-> LookupBlockScope(t, block, k)]

Contents == [b \in 1 .. Len(table.btab) |-> ScopeOf(table, b - 1)]

Open == [d \in 1 .. Len(table.scopes) |-> table.scopes[d] + 1]

Abstract ==
  INSTANCE Scopes WITH
    Keys     <- AbstractKeys,
    Global   <- ScopeOf(InitPredefined(EmptyTable), 0),
    Absent   <- NO_INDEX,
    contents <- Contents,
    open     <- Open,
    next     <- Len(table.tab),
    answer   <- answer

(* The table implements nested scopes: whatever was opened, closed and     *)
(* declared, a lookup finds the innermost declaration, spelling variants   *)
(* are one name, a name is declared once per block, and a closed block     *)
(* never changes.                                                          *)
ImplementsScopes == Abstract!Spec

=============================================================================
