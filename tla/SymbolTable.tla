---------------------------- MODULE SymbolTable ----------------------------
(***************************************************************************)
(* The symbol table (class SymbolTable) as operators on a record:          *)
(*   tab     the identifiers, in the order of their declaration; the link  *)
(*           of an entry leads to the one declared before it in its block  *)
(*   btab    the blocks: the global one, one per subprogram and record     *)
(*   atab    the array and subrange types                                  *)
(*   scopes  the open blocks, outermost first; level counts the inner ones *)
(* Indices count from 0, as in the C++; entry 0 of tab and atab is unused. *)
(***************************************************************************)
EXTENDS Integers, Sequences, FiniteSetsExt

CONSTANTS
  Names,   \* the identifiers of the programs considered
  Folded   \* the lower-case spelling of each

ASSUME NamesAssumption == Folded \in [Names -> Names] /\ \A n \in Names : Folded[Folded[n]] = Folded[n]

NO_INDEX == -1

ObjectKind ==
  {"undefined", "constant", "variable", "type", "procedure", "function", "program",
   "parameter", "field"}

TypeKind ==
  {"Unknown", "Void", "Error", "Integer", "Real", "Char", "Boolean", "String", "Array",
   "Record", "Subrange", "Enumerated"}

NameEquals(a, b) == Folded[a] = Folded[b]

TabEntry(name, link, obj, type, ref, lev, adr) ==
  [identifier |-> name, link |-> link, obj |-> obj, type |-> type, ref |-> ref,
   lev |-> lev, adr |-> adr]

NewBlock == [last |-> NO_INDEX, lpar |-> NO_INDEX, psze |-> 0, vsze |-> 0]

TabAt(t, i)  == t.tab[i + 1]
BTabAt(t, b) == t.btab[b + 1]
ATabAt(t, a) == t.atab[a + 1]

CurrentBlock(t) == t.scopes[Len(t.scopes)]

(* Entry 0 of tab and of atab; the former has no spelling, and no chain of *)
(* links leads to it.                                                      *)
UnusedEntry ==
  [identifier |-> "", link |-> NO_INDEX, obj |-> "undefined", type |-> "Unknown",
   ref |-> NO_INDEX, lev |-> 0, adr |-> 0]

UnusedArray ==
  [xtyp |-> "Unknown", etyp |-> "Unknown", eref |-> NO_INDEX, low |-> 0, high |-> 0,
   elsz |-> 1, size |-> 0]

EmptyTable ==
  [tab |-> << UnusedEntry >>, btab |-> << NewBlock >>, atab |-> << UnusedArray >>,
   scopes |-> << 0 >>, level |-> 0]

-----------------------------------------------------------------------------

(* Mutant: the block's last entry is updated before the link is taken.     *)
InsertSelfLinked(t, name, obj, type, ref, adr) ==
  [t EXCEPT !.tab = Append(@, TabEntry(name, Len(t.tab), obj, type, ref, t.level, adr)),
            !.btab[CurrentBlock(t) + 1].last = Len(t.tab)]

(* Mutant: the link leads to the entry before, whatever its block.         *)
InsertSequential(t, name, obj, type, ref, adr) ==
  [t EXCEPT !.tab = Append(@, TabEntry(name, Len(t.tab) - 1, obj, type, ref, t.level, adr)),
            !.btab[CurrentBlock(t) + 1].last = Len(t.tab)]

Insert(t, name, obj, type, ref, adr) ==
  LET block == CurrentBlock(t) IN
  [t EXCEPT !.tab = Append(@, TabEntry(name, BTabAt(t, block).last, obj, type, ref, t.level, adr)),
            !.btab[block + 1].last = Len(t.tab)]

(* The index the last insert returned.                                     *)
Inserted(t) == Len(t.tab) - 1

(* Along the links, from an entry to older ones of its block: the first    *)
(* that has the name.                                                      *)
Walk(t, name) ==
  LET find[i \in {NO_INDEX} \cup 0 .. Len(t.tab) - 1] ==
        IF i = NO_INDEX \/ NameEquals(TabAt(t, i).identifier, name) THEN i
        ELSE find[TabAt(t, i).link]
  IN  find

LookupBlockScope(t, block, name) ==
  IF block \in 0 .. Len(t.btab) - 1 THEN Walk(t, name)[BTabAt(t, block).last] ELSE NO_INDEX

LookupCurrentScope(t, name) == LookupBlockScope(t, CurrentBlock(t), name)

LookupGlobalScope(t, name) == LookupBlockScope(t, 0, name)

(* Mutant: the search starts at the outermost scope.                       *)
LookupOutermost(t, name) ==
  LET hits == {k \in 1 .. Len(t.scopes) : LookupBlockScope(t, t.scopes[k], name) # NO_INDEX}
  IN  IF hits = {} THEN NO_INDEX ELSE LookupBlockScope(t, t.scopes[Min(hits)], name)

Lookup(t, name) ==
  LET hits == {k \in 1 .. Len(t.scopes) : LookupBlockScope(t, t.scopes[k], name) # NO_INDEX}
  IN  IF hits = {} THEN NO_INDEX ELSE LookupBlockScope(t, t.scopes[Max(hits)], name)

PushBlock(t) ==
  [t EXCEPT !.btab = Append(@, NewBlock),
            !.scopes = Append(@, Len(t.btab)),
            !.level = @ + 1]

(* Mutants: the level stays, or is counted anew and missed by one.         *)
PopBlockSameLevel(t) ==
  IF Len(t.scopes) <= 1 THEN t
  ELSE [t EXCEPT !.scopes = SubSeq(@, 1, Len(@) - 1)]

PopBlockRecounted(t) ==
  IF Len(t.scopes) <= 1 THEN t
  ELSE [t EXCEPT !.scopes = SubSeq(@, 1, Len(@) - 1),
                 !.level = Len(t.scopes) - 3]

PopBlock(t) ==
  IF Len(t.scopes) <= 1 THEN t
  ELSE [t EXCEPT !.scopes = SubSeq(@, 1, Len(@) - 1),
                 !.level = IF @ > 0 THEN @ - 1 ELSE @]

AddArrayType(t, low, high, xtyp, etyp, eref, elsz) ==
  LET width == IF elsz > 0 THEN elsz ELSE 1
      count == IF high >= low THEN high - low + 1 ELSE 0
  IN  [t EXCEPT !.atab = Append(@, [xtyp |-> xtyp, etyp |-> etyp, eref |-> eref,
                                    low |-> low, high |-> high, elsz |-> width,
                                    size |-> count * width])]

(* The predefined identifiers.  The reserved words, which come first in    *)
(* the C++ table, are left out: no identifier is spelled like one.         *)
Predefined ==
  << << "integer", "type", "Integer", 1 >>, << "real", "type", "Real", 1 >>,
     << "char", "type", "Char", 1 >>, << "boolean", "type", "Boolean", 1 >>,
     << "string", "type", "String", 1 >>,
     << "false", "constant", "Boolean", 0 >>, << "true", "constant", "Boolean", 1 >>,
     << "write", "procedure", "Void", 0 >>, << "writeln", "procedure", "Void", 0 >>,
     << "read", "procedure", "Void", 0 >>, << "readln", "procedure", "Void", 0 >> >>

(* One insert after the other into the current block.                      *)
InitPredefined(t) ==
  LET block == CurrentBlock(t)
      count == Len(Predefined)
      link(k) == IF k = 1 THEN BTabAt(t, block).last ELSE Len(t.tab) + k - 2
      entry(k) == LET p == Predefined[k]
                  IN  TabEntry(p[1], link(k), p[2], p[3], NO_INDEX, t.level, p[4])
  IN  [t EXCEPT !.tab = @ \o [k \in 1 .. count |-> entry(k)],
                !.btab[block + 1].last = Len(t.tab) + count - 1]

ASSUME PredefinedAssumption == \A k \in 1 .. Len(Predefined) : Predefined[k][1] \in Names

FirstUserIndex == Len(EmptyTable.tab) + Len(Predefined)

=============================================================================
