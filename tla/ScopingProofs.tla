---------------------------- MODULE ScopingProofs ----------------------------
(***************************************************************************)
(* The structure of the symbol table, proved for every set of names, every *)
(* number of declarations and every nesting of blocks.                     *)
(*                                                                         *)
(* The four conjuncts of Inv need each other: a new entry links to the     *)
(* head of its block's chain, which must have the block's depth            *)
(* (LevelsAreDepths) for LinksDescend to survive, and must be the head of  *)
(* no other block (ChainsAreDisjoint) for both to survive the update.      *)
(*                                                                         *)
(* The table implements nested scopes (Scopes).  A walk along the links is *)
(* a recursive function; that it is one is proved by induction over the    *)
(* entries, to which links lead backwards.  An insert adds an entry no     *)
(* older link leads to, so that every walk from an older entry finds what  *)
(* it found; this is a second such induction.                              *)
(***************************************************************************)
EXTENDS Scoping, Induction, SequenceTheorems, TLAPS

Inv == TypeOK /\ LinksDescend /\ LevelsAreDepths /\ ChainsAreDisjoint

(* What the three updates do to each field, and that they yield a table.   *)

LEMMA EntryType ==
  ASSUME NEW name \in Names, NEW link \in Int, NEW obj \in ObjectKind, NEW type \in TypeKind,
         NEW ref \in Int, NEW lev \in Int, NEW adr \in Int
  PROVE  TabEntry(name, link, obj, type, ref, lev, adr) \in Entry
<1>1. name \in Names \cup {""}
  OBVIOUS
<1> QED
  BY <1>1 DEF TabEntry, Entry

LEMMA InsertFields ==
  ASSUME NEW t \in Table, NEW name \in Names, CurrentBlock(t) \in 0 .. Len(t.btab) - 1
  PROVE  LET u == Insert(t, name, "variable", "Integer", NO_INDEX, 0)
             b == CurrentBlock(t)
             n == Len(t.tab)
         IN  /\ u \in Table
             /\ Len(u.tab) = n + 1
             /\ \A i \in 0 .. n - 1 : TabAt(u, i) = TabAt(t, i)
             /\ TabAt(u, n).identifier = name
             /\ TabAt(u, n).link = BTabAt(t, b).last
             /\ TabAt(u, n).lev = t.level
             /\ Len(u.btab) = Len(t.btab)
             /\ \A c \in 0 .. Len(t.btab) - 1 :
                  BTabAt(u, c).last = IF c = b THEN n ELSE BTabAt(t, c).last
             /\ u.scopes = t.scopes
             /\ u.level = t.level
<1> DEFINE u == Insert(t, name, "variable", "Integer", NO_INDEX, 0)
           b == CurrentBlock(t)
           n == Len(t.tab)
           old == t.btab[b + 1]
           new == [old EXCEPT !.last = n]
           e == TabEntry(name, old.last, "variable", "Integer", NO_INDEX, t.level, 0)
<1>1. /\ t.tab \in Seq(Entry) /\ t.btab \in Seq(Block) /\ t.atab \in Seq(ArrayType)
      /\ t.scopes \in Seq(Nat) /\ t.level \in Nat
  BY DEF Table
<1>2. n \in Nat /\ b + 1 \in 1 .. Len(t.btab) /\ old \in Block
  BY <1>1
<1>3. e \in Entry
  <2> HIDE DEF old
  <2>1. old.last \in Int
    BY <1>2 DEF Block
  <2>2. t.level \in Int /\ NO_INDEX \in Int /\ 0 \in Int
    BY <1>1 DEF NO_INDEX
  <2>3. "variable" \in ObjectKind /\ "Integer" \in TypeKind
    BY DEF ObjectKind, TypeKind
  <2> HIDE DEF NO_INDEX
  <2> QED BY <2>1, <2>2, <2>3, EntryType
<1>4. new \in Block /\ new.last = n
  BY <1>2 DEF Block
<1>5. u = [t EXCEPT !.tab = Append(t.tab, e), !.btab = [t.btab EXCEPT ![b + 1] = new]]
  BY DEF Insert, BTabAt, Table
<1>6. /\ e.identifier = name
      /\ e.link = old.last
      /\ e.lev = t.level
  BY DEF TabEntry
<1> HIDE DEF u, b, n, old, new, e
<1>7. /\ Append(t.tab, e) \in Seq(Entry)
      /\ Len(Append(t.tab, e)) = Len(t.tab) + 1
      /\ \A i \in 1 .. Len(t.tab) : Append(t.tab, e)[i] = t.tab[i]
      /\ Append(t.tab, e)[Len(t.tab) + 1] = e
  BY <1>1, <1>3, AppendProperties
<1>8. /\ [t.btab EXCEPT ![b + 1] = new] \in Seq(Block)
      /\ Len([t.btab EXCEPT ![b + 1] = new]) = Len(t.btab)
      /\ \A j \in 1 .. Len(t.btab) :
           [t.btab EXCEPT ![b + 1] = new][j] = IF j = b + 1 THEN new ELSE t.btab[j]
  BY <1>1, <1>2, <1>4, ExceptSeq
<1>9. /\ u.tab = Append(t.tab, e)
      /\ u.btab = [t.btab EXCEPT ![b + 1] = new]
      /\ u.atab = t.atab /\ u.scopes = t.scopes /\ u.level = t.level
  BY <1>5 DEF Table
<1>10. u \in Table
  BY <1>1, <1>5, <1>7, <1>8 DEF Table
<1>11. /\ Len(u.tab) = n + 1
       /\ \A i \in 0 .. n - 1 : TabAt(u, i) = TabAt(t, i)
       /\ TabAt(u, n).identifier = name
       /\ TabAt(u, n).link = BTabAt(t, b).last
       /\ TabAt(u, n).lev = t.level
  <2>1. Len(u.tab) = n + 1 /\ TabAt(u, n) = e
    BY <1>7, <1>9 DEF n, TabAt
  <2>2. ASSUME NEW i \in 0 .. n - 1 PROVE TabAt(u, i) = TabAt(t, i)
    <3>1. i + 1 \in 1 .. Len(t.tab)
      BY <1>2 DEF n
    <3> QED BY <1>7, <1>9, <3>1 DEF TabAt
  <2> QED BY <1>6, <2>1, <2>2 DEF BTabAt, old
<1>12. ASSUME NEW c \in 0 .. Len(t.btab) - 1
       PROVE  BTabAt(u, c).last = IF c = b THEN n ELSE BTabAt(t, c).last
  <2>1. c + 1 \in 1 .. Len(t.btab) /\ (c + 1 = b + 1 <=> c = b)
    BY <1>1 DEF b
  <2>2. u.btab[c + 1] = IF c + 1 = b + 1 THEN new ELSE t.btab[c + 1]
    BY <1>8, <1>9, <2>1
  <2> QED BY <1>4, <2>1, <2>2 DEF BTabAt
<1> QED
  BY <1>8, <1>9, <1>10, <1>11, <1>12 DEF u, b, n

(* A block is opened at the end of btab and of scopes, with no entry yet.  *)
LEMMA PushFields ==
  ASSUME NEW t \in Table
  PROVE  LET u == PushBlock(t)
             n == Len(t.btab)
             m == Len(t.scopes)
         IN  /\ u \in Table
             /\ u.tab = t.tab
             /\ Len(u.btab) = n + 1
             /\ \A c \in 0 .. n - 1 : BTabAt(u, c) = BTabAt(t, c)
             /\ BTabAt(u, n).last = NO_INDEX
             /\ Len(u.scopes) = m + 1
             /\ \A d \in 1 .. m : u.scopes[d] = t.scopes[d]
             /\ u.scopes[m + 1] = n
             /\ u.level = t.level + 1
<1> DEFINE u == PushBlock(t)
           n == Len(t.btab)
           m == Len(t.scopes)
<1>1. /\ t.tab \in Seq(Entry) /\ t.btab \in Seq(Block) /\ t.atab \in Seq(ArrayType)
      /\ t.scopes \in Seq(Nat) /\ t.level \in Nat
  BY DEF Table
<1>2. n \in Nat /\ m \in Nat
  BY <1>1
<1>3. NewBlock \in Block /\ NewBlock.last = NO_INDEX
  BY DEF NewBlock, Block, NO_INDEX
<1>4. u = [t EXCEPT !.btab = Append(t.btab, NewBlock), !.scopes = Append(t.scopes, n),
                    !.level = t.level + 1]
  BY DEF PushBlock, Table
<1> HIDE DEF u, n, m
<1>5. /\ Append(t.btab, NewBlock) \in Seq(Block)
      /\ Len(Append(t.btab, NewBlock)) = Len(t.btab) + 1
      /\ \A i \in 1 .. Len(t.btab) : Append(t.btab, NewBlock)[i] = t.btab[i]
      /\ Append(t.btab, NewBlock)[Len(t.btab) + 1] = NewBlock
  BY <1>1, <1>3, AppendProperties
<1>6. /\ Append(t.scopes, n) \in Seq(Nat)
      /\ Len(Append(t.scopes, n)) = Len(t.scopes) + 1
      /\ \A i \in 1 .. Len(t.scopes) : Append(t.scopes, n)[i] = t.scopes[i]
      /\ Append(t.scopes, n)[Len(t.scopes) + 1] = n
  BY <1>1, <1>2, AppendProperties
<1>7. /\ u.tab = t.tab /\ u.btab = Append(t.btab, NewBlock) /\ u.atab = t.atab
      /\ u.scopes = Append(t.scopes, n) /\ u.level = t.level + 1
  BY <1>4 DEF Table
<1>8. u \in Table
  <2>1. t.level + 1 \in Nat
    BY <1>1
  <2> QED BY <1>1, <1>4, <1>5, <1>6, <2>1 DEF Table
<1>9. ASSUME NEW c \in 0 .. n - 1 PROVE BTabAt(u, c) = BTabAt(t, c)
  <2>1. c + 1 \in 1 .. Len(t.btab)
    BY <1>2 DEF n
  <2> QED BY <1>5, <1>7, <2>1 DEF BTabAt
<1>10. Len(u.btab) = n + 1 /\ BTabAt(u, n).last = NO_INDEX
  BY <1>3, <1>5, <1>7 DEF BTabAt, n
<1> QED
  BY <1>6, <1>7, <1>8, <1>9, <1>10 DEF u, n, m

(* Closing the current block: it stays in btab.                            *)
LEMMA PopFields ==
  ASSUME NEW t \in Table, Len(t.scopes) > 1, t.level > 0
  PROVE  LET u == PopBlock(t)
             m == Len(t.scopes)
         IN  /\ u \in Table
             /\ u.tab = t.tab
             /\ u.btab = t.btab
             /\ Len(u.scopes) = m - 1
             /\ \A d \in 1 .. m - 1 : u.scopes[d] = t.scopes[d]
             /\ u.level = t.level - 1
<1> DEFINE u == PopBlock(t)
           m == Len(t.scopes)
           kept == SubSeq(t.scopes, 1, m - 1)
<1>1. /\ t.tab \in Seq(Entry) /\ t.btab \in Seq(Block) /\ t.atab \in Seq(ArrayType)
      /\ t.scopes \in Seq(Nat) /\ t.level \in Nat
  BY DEF Table
<1>2. m \in Nat /\ m > 1
  BY <1>1
<1>3. u = [t EXCEPT !.scopes = kept, !.level = t.level - 1]
  BY <1>1, <1>2 DEF PopBlock, Table
<1>4. kept \in Seq(Nat) /\ Len(kept) = m - 1 /\ \A d \in 1 .. m - 1 : kept[d] = t.scopes[d]
  BY <1>1, <1>2
<1> HIDE DEF u, m, kept
<1>5. /\ u.tab = t.tab /\ u.btab = t.btab /\ u.atab = t.atab
      /\ u.scopes = kept /\ u.level = t.level - 1
  BY <1>3 DEF Table
<1>6. u \in Table
  <2>1. t.level - 1 \in Nat
    BY <1>1
  <2> QED BY <1>1, <1>3, <1>4, <2>1 DEF Table
<1> QED
  BY <1>4, <1>5, <1>6 DEF u, m

-----------------------------------------------------------------------------
(* The predefined identifiers: one chain through the global block.         *)

LEMMA PredefinedInit == Init => Inv
<1> SUFFICES ASSUME Init PROVE Inv
  OBVIOUS
<1> DEFINE t == EmptyTable
           k == Len(Predefined)
           zero == UnusedEntry
           link == [j \in 1 .. k |-> IF j = 1 THEN NO_INDEX ELSE j - 1]
           entry == [j \in 1 .. k |->
                       LET p == Predefined[j]
                       IN  TabEntry(p[1], link[j], p[2], p[3], NO_INDEX, 0, p[4])]
           tab == << zero >> \o entry
           block == [NewBlock EXCEPT !.last = k]
<1>1. k = 11
  BY DEF Predefined
<1>2. table = [tab |-> tab, btab |-> << block >>, atab |-> t.atab,
               scopes |-> << 0 >>, level |-> 0]
  <2>0. t = [tab |-> << zero >>, btab |-> << NewBlock >>, atab |-> t.atab,
             scopes |-> << 0 >>, level |-> 0]
    BY DEF EmptyTable
  <2>1. /\ t.tab = << zero >> /\ t.btab = << NewBlock >> /\ t.level = 0
        /\ Len(t.tab) = 1
        /\ CurrentBlock(t) = 0
        /\ BTabAt(t, 0).last = NO_INDEX
    BY DEF EmptyTable, CurrentBlock, BTabAt, NewBlock
  <2> DEFINE old == BTabAt(t, CurrentBlock(t)).last
             first == Len(t.tab)
             level == t.level
             declared == [j \in 1 .. k |->
                            LET p == Predefined[j]
                            IN  TabEntry(p[1], IF j = 1 THEN old ELSE first + j - 2, p[2], p[3],
                                         NO_INDEX, level, p[4])]
  <2>2. InitPredefined(t) =
          [t EXCEPT !.tab = @ \o declared, !.btab[CurrentBlock(t) + 1].last = first + k - 1]
    BY Zenon DEF InitPredefined
  <2>3. old = NO_INDEX /\ first = 1 /\ level = 0
    BY <2>1
  <2>4. declared = entry
    <3> HIDE DEF old, first, level
    <3>1. \A j \in 1 .. k : (IF j = 1 THEN old ELSE first + j - 2) = link[j]
      BY <1>1, <2>3
    <3> HIDE DEF link
    <3> QED BY <2>3, <3>1
  <2> HIDE DEF t, entry, declared, old, first, level
  <2>5. InitPredefined(t) = [tab |-> << zero >> \o entry,
                             btab |-> [ << NewBlock >> EXCEPT ![1].last = 11],
                             atab |-> t.atab, scopes |-> << 0 >>, level |-> 0]
    <3> DEFINE newTab == t.tab \o declared
               newBlocks == [t.btab EXCEPT ![CurrentBlock(t) + 1].last = first + k - 1]
    <3>1. InitPredefined(t) = [t EXCEPT !.tab = newTab, !.btab = newBlocks]
      BY <2>2
    <3>2. newTab = << zero >> \o entry
      BY <2>1, <2>4, Zenon
    <3>3. newBlocks = [ << NewBlock >> EXCEPT ![1].last = 11]
      BY <1>1, <2>1, <2>3
    <3> HIDE DEF newTab, newBlocks
    <3>4. InitPredefined(t) = [tab |-> newTab, btab |-> newBlocks, atab |-> t.atab,
                               scopes |-> << 0 >>, level |-> 0]
      <4> DEFINE zeros == << zero >>
                 blocks == << NewBlock >>
                 arrays == t.atab
                 open == << 0 >>
      <4>1. t = [tab |-> zeros, btab |-> blocks, atab |-> arrays, scopes |-> open, level |-> 0]
        BY <2>0
      <4> HIDE DEF zeros, blocks, arrays, open, newTab, newBlocks
      <4>2. InitPredefined(t) = [tab |-> newTab, btab |-> newBlocks, atab |-> arrays,
                                 scopes |-> open, level |-> 0]
        BY <3>1, <4>1
      <4> QED BY <4>2 DEF arrays, open
    <3> QED BY <3>2, <3>3, <3>4, Zenon
  <2>6. [ << NewBlock >> EXCEPT ![1].last = 11] = << block >>
    BY <1>1 DEF NewBlock
  <2> QED BY <2>5, <2>6 DEF Init, t
<1>3. zero \in Entry /\ zero.link = NO_INDEX /\ zero.lev = 0
  <2>1. "undefined" \in ObjectKind /\ "Unknown" \in TypeKind /\ "" \in Names \cup {""}
    BY DEF ObjectKind, TypeKind
  <2>2. NO_INDEX \in Int /\ 0 \in Int
    BY DEF NO_INDEX
  <2> HIDE DEF NO_INDEX
  <2> QED BY <2>1, <2>2 DEF UnusedEntry, Entry
<1>4. ASSUME NEW j \in 1 .. 11
      PROVE  entry[j] \in Entry /\ entry[j].link = link[j] /\ entry[j].lev = 0
  <2>1. Predefined[j][1] \in Names
    BY <1>1, PredefinedAssumption
  <2>2. Predefined[j][2] \in ObjectKind /\ Predefined[j][3] \in TypeKind /\ Predefined[j][4] \in Int
    BY DEF Predefined, ObjectKind, TypeKind
  <2>3. link[j] \in Int /\ NO_INDEX \in Int /\ 0 \in Int
    BY <1>1 DEF NO_INDEX
  <2>4. entry[j] = TabEntry(Predefined[j][1], link[j], Predefined[j][2], Predefined[j][3],
                            NO_INDEX, 0, Predefined[j][4])
    BY <1>1
  <2> HIDE DEF link, entry
  <2>5. /\ entry[j].link = link[j]
        /\ entry[j].lev = 0
    BY <2>4 DEF TabEntry
  <2>6. entry[j] \in Entry
    <3> DEFINE name == Predefined[j][1]
               obj == Predefined[j][2]
               type == Predefined[j][3]
               adr == Predefined[j][4]
    <3>1. /\ name \in Names /\ obj \in ObjectKind /\ type \in TypeKind /\ adr \in Int
          /\ entry[j] = TabEntry(name, link[j], obj, type, NO_INDEX, 0, adr)
      BY <2>1, <2>2, <2>4
    <3> HIDE DEF name, obj, type, adr
    <3>2. TabEntry(name, link[j], obj, type, NO_INDEX, 0, adr) \in Entry
      BY <2>3, <3>1, EntryType
    <3> QED
      BY <3>1, <3>2
  <2> QED BY <2>5, <2>6
<1>5. block \in Block /\ block.last = 11
  <2>1. NewBlock \in Block
    BY DEF NewBlock, Block, NO_INDEX
  <2> HIDE DEF k
  <2> QED BY <1>1, <2>1 DEF Block
<1>6. t.atab \in Seq(ArrayType)
  <2>1. UnusedArray \in ArrayType
    BY DEF UnusedArray, ArrayType, TypeKind, NO_INDEX
  <2> QED BY <2>1 DEF EmptyTable
<1>7. entry \in Seq(Entry) /\ Len(entry) = 11
  <2>1. entry = [j \in 1 .. 11 |-> entry[j]]
    BY <1>1
  <2> HIDE DEF entry
  <2> QED BY <1>4, <2>1
<1>8. ASSUME NEW j \in 1 .. 11 PROVE link[j] = IF j = 1 THEN NO_INDEX ELSE j - 1
  BY <1>1
<1> HIDE DEF zero, entry, block, link
<1>9. << zero >> \in Seq(Entry) /\ Len(<< zero >>) = 1 /\ << zero >>[1] = zero
  BY <1>3
<1>10. /\ tab \in Seq(Entry)
       /\ Len(tab) = Len(<< zero >>) + Len(entry)
       /\ \A i \in 1 .. Len(<< zero >>) + Len(entry) :
            tab[i] = IF i <= Len(<< zero >>) THEN << zero >>[i] ELSE entry[i - Len(<< zero >>)]
  BY <1>7, <1>9, ConcatProperties
<1> HIDE DEF tab
<1>11. Len(tab) = 12 /\ tab[1] = zero
  BY <1>7, <1>9, <1>10
<1>12. ASSUME NEW j \in 1 .. 11 PROVE tab[j + 1] = entry[j]
  <2>1. j + 1 \in 1 .. 12 /\ ~(j + 1 <= 1) /\ (j + 1) - 1 = j
    OBVIOUS
  <2> QED BY <1>7, <1>9, <1>10, <2>1
<1>13. /\ table.tab = tab /\ table.btab = << block >> /\ Len(table.btab) = 1
       /\ table.scopes = << 0 >> /\ Len(table.scopes) = 1 /\ table.scopes[1] = 0
       /\ table.level = 0
  BY <1>2
<1>14. TypeOK
  <2>1. << block >> \in Seq(Block) /\ << 0 >> \in Seq(Nat) /\ 0 \in Nat
    BY <1>5
  <2> QED BY <1>2, <1>6, <1>10, <2>1 DEF TypeOK, Table
<1>15. Indices = 0 .. 11
  <2>1. Len(table.tab) - 1 = 11
    BY <1>11, <1>13
  <2> QED BY <2>1, Zenon DEF Indices
<1>16. ASSUME NEW i \in 0 .. 11
       PROVE  /\ TabAt(table, i).link = IF i <= 1 THEN NO_INDEX ELSE i - 1
              /\ TabAt(table, i).lev = 0
  <2>1. CASE i = 0
    BY <1>3, <1>11, <1>13, <2>1 DEF TabAt
  <2>2. CASE i \in 1 .. 11
    <3>1. TabAt(table, i) = entry[i]
      BY <1>12, <1>13, <2>2 DEF TabAt
    <3> QED BY <1>4, <1>8, <2>2, <3>1
  <2> QED BY <2>1, <2>2
<1>17. BTabAt(table, 0).last = 11
  BY <1>5, <1>13 DEF BTabAt
<1>18. LinksDescend
  BY <1>15, <1>16 DEF LinksDescend, NO_INDEX
<1>19. LevelsAreDepths
  BY <1>13, <1>16, <1>17 DEF LevelsAreDepths
<1>20. ChainsAreDisjoint
  BY <1>13, <1>15, <1>16, <1>17 DEF ChainsAreDisjoint, NO_INDEX
<1> QED
  BY <1>14, <1>18, <1>19, <1>20 DEF Inv

-----------------------------------------------------------------------------
(* The steps.                                                              *)

LEMMA CurrentIsOpen ==
  ASSUME Inv
  PROVE  /\ CurrentBlock(table) \in 0 .. Len(table.btab) - 1
         /\ CurrentBlock(table) = table.scopes[table.level + 1]
         /\ Len(table.scopes) = table.level + 1
         /\ table.level + 1 \in 1 .. Len(table.scopes)
  BY DEF Inv, TypeOK, Table, LevelsAreDepths, CurrentBlock

LEMMA InsertPreserves ==
  ASSUME Inv, NEW name \in Names,
         table' = Insert(table, name, "variable", "Integer", NO_INDEX, 0)
  PROVE  Inv'
<1> DEFINE n == Len(table.tab)
           b == CurrentBlock(table)
           blocks == 0 .. Len(table.btab) - 1
           Newest(c) == BTabAt(table, c).last
<1>1. /\ n \in Nat /\ Len(table.btab) \in Nat /\ Len(table.scopes) \in Nat /\ table.level \in Nat
      /\ Indices = 0 .. n - 1
  BY DEF Inv, TypeOK, Table, Indices
<1>2. /\ b \in blocks
      /\ b = table.scopes[table.level + 1]
      /\ Len(table.scopes) = table.level + 1
      /\ table.level + 1 \in 1 .. Len(table.scopes)
  BY CurrentIsOpen
<1>3. table \in Table
  BY DEF Inv, TypeOK
<1>4. /\ table' \in Table
      /\ Len(table'.tab) = n + 1
      /\ \A i \in 0 .. n - 1 : TabAt(table', i) = TabAt(table, i)
      /\ TabAt(table', n).link = Newest(b)
      /\ TabAt(table', n).lev = table.level
      /\ Len(table'.btab) = Len(table.btab)
      /\ \A c \in blocks : BTabAt(table', c).last = IF c = b THEN n ELSE Newest(c)
      /\ table'.scopes = table.scopes
      /\ table'.level = table.level
  BY <1>2, <1>3, InsertFields
<1>5. Indices' = 0 .. n /\ Indices' = Indices \cup {n}
  BY <1>1, <1>4 DEF Indices
<1>6. Newest(b) \in {NO_INDEX} \cup 0 .. n - 1
  BY <1>1, <1>2 DEF Inv, ChainsAreDisjoint
<1>7. Newest(b) # NO_INDEX => TabAt(table, Newest(b)).lev = table.level
  BY <1>1, <1>2 DEF Inv, LevelsAreDepths
<1> HIDE DEF n, b
<1>8. LinksDescend'
  <2>1. ASSUME NEW i \in 0 .. n - 1
        PROVE  LET link == TabAt(table', i).link
               IN  /\ link \in {NO_INDEX} \cup 0 .. i - 1
                   /\ link # NO_INDEX => TabAt(table', link).lev = TabAt(table', i).lev
    <3>1. TabAt(table', i) = TabAt(table, i)
      BY <1>4
    <3>2. /\ TabAt(table, i).link \in {NO_INDEX} \cup 0 .. i - 1
          /\ TabAt(table, i).link # NO_INDEX =>
               TabAt(table, TabAt(table, i).link).lev = TabAt(table, i).lev
      BY <1>1 DEF Inv, LinksDescend
    <3>3. TabAt(table, i).link # NO_INDEX =>
            TabAt(table', TabAt(table, i).link) = TabAt(table, TabAt(table, i).link)
      BY <1>1, <1>4, <3>2
    <3> QED BY <3>1, <3>2, <3>3
  <2>2. Newest(b) # NO_INDEX => TabAt(table', Newest(b)) = TabAt(table, Newest(b))
    BY <1>4, <1>6
  <2> QED BY <1>1, <1>4, <1>5, <1>6, <1>7, <2>1, <2>2 DEF LinksDescend
<1>9. LevelsAreDepths'
  <2>1. ASSUME NEW d \in 1 .. Len(table.scopes), BTabAt(table', table.scopes[d]).last # NO_INDEX
        PROVE  TabAt(table', BTabAt(table', table.scopes[d]).last).lev = d - 1
    <3>1. table.scopes[d] \in blocks
      BY DEF Inv, LevelsAreDepths
    <3>2. CASE table.scopes[d] = b
      <4>1. d = table.level + 1
        <5>1. \A f, g \in 1 .. Len(table.scopes) : f < g => table.scopes[f] < table.scopes[g]
          BY DEF Inv, LevelsAreDepths
        <5> QED BY <1>1, <1>2, <3>1, <3>2, <5>1
      <4>2. BTabAt(table', table.scopes[d]).last = n
        BY <1>4, <3>1, <3>2
      <4>3. d - 1 = table.level
        BY <1>1, <4>1
      <4> QED BY <1>4, <4>2, <4>3
    <3>3. CASE table.scopes[d] # b
      <4>1. BTabAt(table', table.scopes[d]).last = Newest(table.scopes[d])
        BY <1>4, <3>1, <3>3
      <4>2. Newest(table.scopes[d]) \in 0 .. n - 1
        BY <1>1, <2>1, <3>1, <4>1 DEF Inv, ChainsAreDisjoint
      <4>3. TabAt(table, Newest(table.scopes[d])).lev = d - 1
        BY <2>1, <4>1 DEF Inv, LevelsAreDepths
      <4> QED BY <1>4, <4>1, <4>2, <4>3
    <3> QED BY <3>2, <3>3
  <2> QED BY <1>4, <2>1 DEF Inv, LevelsAreDepths
<1>10. ChainsAreDisjoint'
  <2> DEFINE last == [c \in blocks |-> BTabAt(table, c).last]
             link == [i \in 0 .. n - 1 |-> TabAt(table, i).link]
             newLast == [c \in blocks |-> BTabAt(table', c).last]
             newLink == [i \in 0 .. n |-> TabAt(table', i).link]
  <2>1. /\ \A c \in blocks : last[c] \in {NO_INDEX} \cup 0 .. n - 1
        /\ \A c, e \in blocks : c # e /\ last[c] = last[e] => last[c] = NO_INDEX
        /\ \A i, j \in 0 .. n - 1 : i # j /\ link[i] = link[j] => link[i] = NO_INDEX
        /\ \A c \in blocks, i \in 0 .. n - 1 : last[c] = link[i] => last[c] = NO_INDEX
        /\ \A i \in 0 .. n - 1 : link[i] \in {NO_INDEX} \cup 0 .. i - 1
    BY <1>1 DEF Inv, ChainsAreDisjoint, LinksDescend
  <2>2. /\ \A c \in blocks : newLast[c] = IF c = b THEN n ELSE last[c]
        /\ \A i \in 0 .. n - 1 : newLink[i] = link[i]
        /\ newLink[n] = last[b]
    BY <1>1, <1>2, <1>4
  <2> HIDE DEF last, link, newLast, newLink
  <2>3. NO_INDEX \notin 0 .. n
    BY <1>1 DEF NO_INDEX
  <2>4. \A c \in blocks : newLast[c] \in {NO_INDEX} \cup 0 .. n
    BY <1>1, <2>1, <2>2
  <2>5. ASSUME NEW c \in blocks, NEW e \in blocks, c # e, newLast[c] = newLast[e]
        PROVE  newLast[c] = NO_INDEX
    <3>1. \A f \in blocks : last[f] # n
      BY <1>1, <2>1, <2>3
    <3>2. newLast[c] = last[c] /\ newLast[e] = last[e]
      BY <2>2, <2>5, <3>1
    <3> QED BY <2>1, <2>5, <3>2
  <2>6. ASSUME NEW i \in 0 .. n, NEW j \in 0 .. n, i # j, newLink[i] = newLink[j]
        PROVE  newLink[i] = NO_INDEX
    <3>1. CASE i = n
      <4>1. j \in 0 .. n - 1
        BY <1>1, <2>6, <3>1
      <4> QED BY <1>2, <2>1, <2>2, <2>6, <3>1, <4>1
    <3>2. CASE j = n
      <4>1. i \in 0 .. n - 1
        BY <1>1, <2>6, <3>2
      <4> QED BY <1>2, <2>1, <2>2, <2>6, <3>2, <4>1
    <3>3. CASE i # n /\ j # n
      <4>1. i \in 0 .. n - 1 /\ j \in 0 .. n - 1
        BY <1>1, <3>3
      <4> QED BY <2>1, <2>2, <2>6, <4>1
    <3> QED BY <3>1, <3>2, <3>3
  <2>7. \A c \in blocks, i \in 0 .. n : newLast[c] = newLink[i] => newLast[c] = NO_INDEX
    <3> SUFFICES ASSUME NEW c \in blocks, NEW i \in 0 .. n, newLast[c] = newLink[i]
                 PROVE  newLast[c] = NO_INDEX
      OBVIOUS
    <3>1. CASE c = b
      <4>1. newLink[i] \in {NO_INDEX} \cup 0 .. n - 1
        BY <1>1, <1>2, <2>1, <2>2, SMTT(40)
      <4> QED BY <1>1, <2>2, <3>1, <4>1
    <3>2. CASE c # b /\ i = n
      BY <1>2, <2>1, <2>2, <3>2
    <3>3. CASE c # b /\ i # n
      BY <1>1, <2>1, <2>2, <3>3
    <3> QED BY <3>1, <3>2, <3>3
  <2> QED BY <1>4, <1>5, <2>4, <2>5, <2>6, <2>7 DEF ChainsAreDisjoint, newLast, newLink
<1> QED
  BY <1>4, <1>8, <1>9, <1>10 DEF Inv, TypeOK

LEMMA PushPreserves == Inv /\ table' = PushBlock(table) => Inv'
<1> SUFFICES ASSUME Inv, table' = PushBlock(table) PROVE Inv'
  OBVIOUS
<1> DEFINE n == Len(table.btab)
           m == Len(table.scopes)
<1>1. /\ n \in Nat /\ m \in Nat /\ table.level \in Nat /\ Len(table.tab) \in Nat
      /\ table \in Table
  BY DEF Inv, TypeOK, Table
<1>2. /\ table' \in Table
      /\ table'.tab = table.tab
      /\ Len(table'.btab) = n + 1
      /\ \A c \in 0 .. n - 1 : BTabAt(table', c) = BTabAt(table, c)
      /\ BTabAt(table', n).last = NO_INDEX
      /\ Len(table'.scopes) = m + 1
      /\ \A d \in 1 .. m : table'.scopes[d] = table.scopes[d]
      /\ table'.scopes[m + 1] = n
      /\ table'.level = table.level + 1
  BY <1>1, PushFields
<1>3. Indices' = Indices /\ \A i : TabAt(table', i) = TabAt(table, i)
  BY <1>2 DEF Indices, TabAt
<1>4. /\ m = table.level + 1
      /\ table.scopes[1] = 0
      /\ \A d \in 1 .. m : table.scopes[d] \in 0 .. n - 1
      /\ \A d, e \in 1 .. m : d < e => table.scopes[d] < table.scopes[e]
      /\ \A d \in 1 .. m : BTabAt(table, table.scopes[d]).last # NO_INDEX =>
           TabAt(table, BTabAt(table, table.scopes[d]).last).lev = d - 1
  BY DEF Inv, LevelsAreDepths
<1> HIDE DEF n, m
<1>5. LinksDescend'
  BY <1>3 DEF Inv, LinksDescend
<1>6. LevelsAreDepths'
  <2>1. \A d \in 1 .. m + 1 : d = m + 1 \/ d \in 1 .. m
    BY <1>1
  <2>2. ASSUME NEW d \in 1 .. m + 1 PROVE table'.scopes[d] \in 0 .. n
    <3>1. CASE d = m + 1
      BY <1>1, <1>2, <3>1
    <3>2. CASE d \in 1 .. m
      <4>1. table'.scopes[d] = table.scopes[d] /\ table.scopes[d] \in 0 .. n - 1
        BY <1>2, <1>4, <3>2
      <4> QED BY <1>1, <4>1
    <3> QED BY <2>1, <3>1, <3>2
  <2>3. ASSUME NEW d \in 1 .. m + 1, NEW e \in 1 .. m + 1, d < e
        PROVE  table'.scopes[d] < table'.scopes[e]
    <3>1. d \in 1 .. m
      BY <1>1, <2>3
    <3>2. CASE e = m + 1
      <4>1. table.scopes[d] \in 0 .. n - 1
        BY <1>4, <3>1
      <4> QED BY <1>1, <1>2, <3>1, <3>2, <4>1
    <3>3. CASE e \in 1 .. m
      BY <1>2, <1>4, <2>3, <3>1, <3>3
    <3> QED BY <2>1, <3>2, <3>3
  <2>4. ASSUME NEW d \in 1 .. m + 1, BTabAt(table', table'.scopes[d]).last # NO_INDEX
        PROVE  TabAt(table', BTabAt(table', table'.scopes[d]).last).lev = d - 1
    <3>1. d \in 1 .. m
      BY <1>2, <2>1, <2>4
    <3>2. BTabAt(table', table'.scopes[d]) = BTabAt(table, table.scopes[d])
      BY <1>2, <1>4, <3>1
    <3> QED BY <1>3, <1>4, <2>4, <3>1, <3>2
  <2>5. 1 \in 1 .. m /\ (n + 1) - 1 = n
    BY <1>1, <1>4
  <2> QED BY <1>1, <1>2, <1>4, <2>2, <2>3, <2>4, <2>5 DEF LevelsAreDepths
<1>7. ChainsAreDisjoint'
  <2>1. \A c \in 0 .. Len(table'.btab) - 1 : c = n \/ c \in 0 .. n - 1
    BY <1>1, <1>2
  <2>2. \A c \in 0 .. n - 1 : BTabAt(table', c).last = BTabAt(table, c).last
    BY <1>2
  <2> QED BY <1>2, <1>3, <2>1, <2>2 DEF Inv, ChainsAreDisjoint, n
<1> QED
  BY <1>2, <1>5, <1>6, <1>7 DEF Inv, TypeOK

LEMMA PopPreserves ==
  Inv /\ Len(table.scopes) > 1 /\ table' = PopBlock(table) => Inv'
<1> SUFFICES ASSUME Inv, Len(table.scopes) > 1, table' = PopBlock(table) PROVE Inv'
  OBVIOUS
<1> DEFINE m == Len(table.scopes)
<1>1. m \in Nat /\ table.level \in Nat /\ table \in Table
  BY DEF Inv, TypeOK, Table
<1>2. m = table.level + 1 /\ table.level > 0
  BY <1>1 DEF Inv, LevelsAreDepths
<1>3. /\ table' \in Table
      /\ table'.tab = table.tab
      /\ table'.btab = table.btab
      /\ Len(table'.scopes) = m - 1
      /\ \A d \in 1 .. m - 1 : table'.scopes[d] = table.scopes[d]
      /\ table'.level = table.level - 1
  BY <1>1, <1>2, PopFields
<1>4. /\ Indices' = Indices
      /\ \A i : TabAt(table', i) = TabAt(table, i)
      /\ \A c : BTabAt(table', c) = BTabAt(table, c)
  BY <1>3 DEF Indices, TabAt, BTabAt
<1>5. LinksDescend'
  BY <1>4 DEF Inv, LinksDescend
<1>6. LevelsAreDepths'
  <2>1. /\ Len(table'.scopes) = table'.level + 1
        /\ table'.scopes[1] = 0
    <3>1. table.scopes[1] = 0
      BY DEF Inv, LevelsAreDepths
    <3> HIDE DEF m
    <3>2. 1 \in 1 .. m - 1 /\ m - 1 = (table.level - 1) + 1
      BY <1>1, <1>2
    <3> QED BY <1>3, <3>1, <3>2
  <2>2. ASSUME NEW d \in 1 .. m - 1
        PROVE  /\ d \in 1 .. m
               /\ table'.scopes[d] = table.scopes[d]
    BY <1>1, <1>3
  <2>3. /\ \A d \in 1 .. m : table.scopes[d] \in 0 .. Len(table.btab) - 1
        /\ \A d, e \in 1 .. m : d < e => table.scopes[d] < table.scopes[e]
        /\ \A d \in 1 .. m : BTabAt(table, table.scopes[d]).last # NO_INDEX =>
             TabAt(table, BTabAt(table, table.scopes[d]).last).lev = d - 1
    BY DEF Inv, LevelsAreDepths
  <2> HIDE DEF m
  <2>4. /\ \A d \in 1 .. m - 1 : table'.scopes[d] \in 0 .. Len(table'.btab) - 1
        /\ \A d, e \in 1 .. m - 1 : d < e => table'.scopes[d] < table'.scopes[e]
    BY <1>3, <2>2, <2>3
  <2>5. ASSUME NEW d \in 1 .. m - 1, BTabAt(table', table'.scopes[d]).last # NO_INDEX
        PROVE  TabAt(table', BTabAt(table', table'.scopes[d]).last).lev = d - 1
    BY <1>4, <2>2, <2>3, <2>5
  <2> QED BY <1>3, <2>1, <2>4, <2>5 DEF LevelsAreDepths
<1>7. ChainsAreDisjoint'
  BY <1>3, <1>4 DEF Inv, ChainsAreDisjoint
<1> QED
  BY <1>3, <1>5, <1>6, <1>7 DEF Inv, TypeOK

LEMMA NextPreserves == Inv /\ [Next]_vars => Inv'
<1> SUFFICES ASSUME Inv, [Next]_vars PROVE Inv'
  OBVIOUS
<1>1. ASSUME UNCHANGED table PROVE Inv'
  BY <1>1 DEF Inv, TypeOK, LinksDescend, LevelsAreDepths, ChainsAreDisjoint, Indices
<1>2. ASSUME NEW name \in Identifiers, DeclareIdentifier(name) PROVE Inv'
  <2>1. name \in Names
    BY IdentifiersAssumption
  <2>2. CASE LookupCurrentScope(table, name) # NO_INDEX
    BY <1>1, <1>2, <2>2 DEF DeclareIdentifier
  <2>3. CASE LookupCurrentScope(table, name) = NO_INDEX
    BY <1>2, <2>1, <2>3, InsertPreserves DEF DeclareIdentifier
  <2> QED BY <2>2, <2>3
<1>3. ASSUME NEW name \in Identifiers, LookupIdentifier(name) PROVE Inv'
  BY <1>1, <1>3 DEF LookupIdentifier
<1>4. ASSUME NEW name \in Identifiers, NEW block \in 0 .. Len(table.btab) - 1,
             LookupIn(block, name)
      PROVE  Inv'
  BY <1>1, <1>4 DEF LookupIn
<1>5. CASE EnterBlock
  BY <1>5, PushPreserves DEF EnterBlock
<1>6. CASE LeaveBlock
  BY <1>6, PopPreserves DEF LeaveBlock
<1>7. CASE UNCHANGED vars
  BY <1>1, <1>7 DEF vars
<1> QED
  BY <1>2, <1>3, <1>4, <1>5, <1>6, <1>7 DEF Next

(* The table's structure (insert, pushBlock and popBlock): its parts are   *)
(* the four theorems that follow.                                          *)
THEOREM Structure == Spec => []Inv
<1>1. Init => Inv
  BY PredefinedInit
<1>2. Inv /\ [Next]_vars => Inv'
  BY NextPreserves
<1> QED
  BY <1>1, <1>2, PTL DEF Spec

(* The table is well typed whatever is declared, opened and closed.        *)
THEOREM TypeCorrect == Spec => []TypeOK
  BY Structure, PTL DEF Inv

(* A walk along the links of a block always goes on to an earlier entry of *)
(* the same nesting level: every lookup ends.                              *)
THEOREM LookupsEnd == Spec => []LinksDescend
  BY Structure, PTL DEF Inv

(* The level of an entry is the nesting depth of the block it is found in, *)
(* for every open block: the code generator's static distances are right.  *)
THEOREM LevelsCorrect == Spec => []LevelsAreDepths
  BY Structure, PTL DEF Inv

(* No declaration is reachable twice.                                      *)
THEOREM ChainsCorrect == Spec => []ChainsAreDisjoint
  BY Structure, PTL DEF Inv

-----------------------------------------------------------------------------
(* The walks of a lookup.                                                  *)

(* What the walk for a name does at an entry, g being the walk.            *)
Hits(t, name, i) == i = NO_INDEX \/ NameEquals(TabAt(t, i).identifier, name)

Found(t, name, g, i) == IF Hits(t, name, i) THEN i ELSE g[TabAt(t, i).link]

Stops(n) == {NO_INDEX} \cup 0 .. n - 1

LinksOf(t) ==
  \A i \in 0 .. Len(t.tab) - 1 : TabAt(t, i).link \in {NO_INDEX} \cup 0 .. i - 1

(* g is the walk over the first m entries.                                 *)
Walks(t, name, m, g) == g = [i \in Stops(m) |-> Found(t, name, g, i)]

HasWalk(t, name, m) == \E g : Walks(t, name, m, g)

-----------------------------------------------------------------------------
LEMMA WalksGrow ==
  ASSUME NEW t, NEW name, LinksOf(t), Len(t.tab) \in Nat, NEW m \in Nat, m < Len(t.tab),
         HasWalk(t, name, m)
  PROVE  HasWalk(t, name, m + 1)
<1>0. PICK g : g = [i \in Stops(m) |-> Found(t, name, g, i)]
  BY DEF HasWalk, Walks
<1> DEFINE h == [i \in Stops(m + 1) |->
                   IF i = m THEN Found(t, name, g, m) ELSE g[i]]
<1>1. NO_INDEX # m /\ Stops(m + 1) = Stops(m) \cup {m} /\ m \notin Stops(m)
  BY DEF NO_INDEX, Stops
<1>2. \A i \in Stops(m + 1) : h[i] = IF i = m THEN Found(t, name, g, m) ELSE g[i]
  OBVIOUS
<1>3. \A i \in Stops(m) : h[i] = g[i] /\ g[i] = Found(t, name, g, i)
  BY <1>0, <1>1, <1>2
<1> HIDE DEF h
<1>4. ASSUME NEW i \in Stops(m + 1), ~ Hits(t, name, i)
      PROVE  TabAt(t, i).link \in Stops(m)
  <2>1. i \in 0 .. m
    BY <1>4 DEF Hits, Stops
  <2>2. TabAt(t, i).link \in {NO_INDEX} \cup 0 .. i - 1
    BY <2>1 DEF LinksOf
  <2> QED
    BY <2>1, <2>2 DEF Stops
<1>5. \A i \in Stops(m + 1) : Found(t, name, h, i) = Found(t, name, g, i)
  BY <1>3, <1>4 DEF Found
<1>6. \A i \in Stops(m + 1) : h[i] = Found(t, name, h, i)
  BY <1>1, <1>2, <1>3, <1>5
<1>7. h = [i \in Stops(m + 1) |-> h[i]]
  BY DEF h
<1> QED
  BY <1>6, <1>7 DEF HasWalk, Walks

LEMMA WalkExists ==
  ASSUME NEW t, NEW name, LinksOf(t), Len(t.tab) \in Nat
  PROVE  HasWalk(t, name, Len(t.tab))
<1> DEFINE S == {m \in Nat : m <= Len(t.tab) => HasWalk(t, name, m)}
<1>1. 0 \in S
  <2> DEFINE g == [i \in Stops(0) |-> NO_INDEX]
  <2>1. \A i \in Stops(0) : i = NO_INDEX
    BY DEF Stops
  <2>2. \A i \in Stops(0) : g[i] = Found(t, name, g, i)
    BY <2>1 DEF Found, Hits
  <2>3. g = [i \in Stops(0) |-> Found(t, name, g, i)]
    BY <2>2
  <2> QED
    BY <2>3 DEF HasWalk, Walks
<1>2. \A m \in Nat : m \in S => m + 1 \in S
  BY WalksGrow
<1>3. Nat \subseteq S
  <2> HIDE DEF S
  <2> QED
    BY <1>1, <1>2, NaturalsIn
<1> QED
  BY <1>3

(* The walk is what its definition says.                                   *)
LEMMA WalkDef ==
  ASSUME NEW t, NEW name, LinksOf(t), Len(t.tab) \in Nat
  PROVE  \A i \in Stops(Len(t.tab)) : Walk(t, name)[i] = Found(t, name, Walk(t, name), i)
<1>1. Walk(t, name) = CHOOSE g : Walks(t, name, Len(t.tab), g)
  BY DEF Walk, Walks, Stops, Found, Hits
<1>2. Walks(t, name, Len(t.tab), Walk(t, name))
  BY <1>1, WalkExists DEF HasWalk
<1> QED
  BY <1>2 DEF Walks

(* Walks for spellings of one name, through entries that two tables share, *)
(* find the same.                                                          *)
LEMMA SameWalk ==
  ASSUME NEW t, NEW u, NEW name, NEW spelling, Folded[name] = Folded[spelling],
         LinksOf(t), LinksOf(u),
         Len(t.tab) \in Nat, Len(u.tab) \in Nat, Len(t.tab) <= Len(u.tab),
         \A i \in 0 .. Len(t.tab) - 1 : TabAt(u, i) = TabAt(t, i)
  PROVE  \A i \in Stops(Len(t.tab)) : Walk(u, spelling)[i] = Walk(t, name)[i]
<1> DEFINE f == Walk(t, name)
           g == Walk(u, spelling)
           n == Len(t.tab)
           T == {i \in 0 .. n - 1 : f[i] # g[i]}
<1>1. \A i \in Stops(n) : f[i] = Found(t, name, f, i) /\ g[i] = Found(u, spelling, g, i)
  <2>1. Stops(n) \subseteq Stops(Len(u.tab))
    BY DEF Stops
  <2> QED
    BY <2>1, WalkDef
<1> HIDE DEF f, g
<1>2. f[NO_INDEX] = NO_INDEX /\ g[NO_INDEX] = NO_INDEX
  BY <1>1 DEF Stops, Found, Hits
<1>3. T = {}
  <2> SUFFICES ASSUME T # {} PROVE FALSE
    OBVIOUS
  <2>0. T \subseteq Nat
    OBVIOUS
  <2>1. PICK m \in T : \A k \in T : m <= k
    <3> HIDE DEF T
    <3> QED
      BY <2>0, LeastNatural
  <2>2. m \in 0 .. n - 1 /\ f[m] # g[m] /\ TabAt(u, m) = TabAt(t, m)
    BY <2>1
  <2>3. /\ f[m] = IF NameEquals(TabAt(t, m).identifier, name) THEN m ELSE f[TabAt(t, m).link]
        /\ g[m] = IF NameEquals(TabAt(t, m).identifier, name) THEN m ELSE g[TabAt(t, m).link]
    BY <1>1, <2>2 DEF Stops, Found, Hits, NO_INDEX, NameEquals
  <2>4. TabAt(t, m).link \in {NO_INDEX} \cup 0 .. m - 1
    BY <2>2 DEF LinksOf
  <2>5. f[TabAt(t, m).link] = g[TabAt(t, m).link]
    <3>1. CASE TabAt(t, m).link = NO_INDEX
      BY <1>2, <3>1
    <3>2. CASE TabAt(t, m).link \in 0 .. m - 1
      BY <2>1, <2>2, <3>2
    <3> QED
      BY <2>4, <3>1, <3>2
  <2> QED
    BY <2>2, <2>3, <2>5
<1> QED
  BY <1>2, <1>3 DEF Stops, f, g

-----------------------------------------------------------------------------
(* Lookups in one block, in terms of the invariant.                        *)

LEMMA TableFacts ==
  ASSUME Inv
  PROVE  /\ LinksOf(table) /\ Len(table.tab) \in Nat /\ Len(table.btab) \in Nat
         /\ Len(table.scopes) \in Nat \ {0}
         /\ \A b \in 0 .. Len(table.btab) - 1 : BTabAt(table, b).last \in Stops(Len(table.tab))
         /\ \A d \in 1 .. Len(table.scopes) : table.scopes[d] \in 0 .. Len(table.btab) - 1
BY DEF Inv, TypeOK, Table, LinksDescend, LevelsAreDepths, ChainsAreDisjoint, Indices, LinksOf, Stops

(* A lookup depends on the name only up to its spelling.                   *)
LEMMA SpellingsFound ==
  ASSUME Inv, NEW name \in Names, NEW b \in 0 .. Len(table.btab) - 1
  PROVE  LookupBlockScope(table, b, Folded[name]) = LookupBlockScope(table, b, name)
<1>1. Folded[name] = Folded[Folded[name]]
  BY NamesAssumption
<1>2. \A i \in Stops(Len(table.tab)) : Walk(table, Folded[name])[i] = Walk(table, name)[i]
  BY <1>1, TableFacts, SameWalk
<1> QED
  BY <1>2, TableFacts DEF LookupBlockScope

(* A new block has no names; the others keep theirs.                       *)
LEMMA PushLookups ==
  ASSUME Inv, table' = PushBlock(table), NEW name
  PROVE  /\ LookupBlockScope(table', Len(table.btab), name) = NO_INDEX
         /\ \A b \in 0 .. Len(table.btab) - 1 :
              LookupBlockScope(table', b, name) = LookupBlockScope(table, b, name)
<1> DEFINE n == Len(table.btab)
<1>1. /\ table'.tab = table.tab
      /\ Len(table'.btab) = n + 1
      /\ \A c \in 0 .. n - 1 : BTabAt(table', c) = BTabAt(table, c)
      /\ BTabAt(table', n).last = NO_INDEX
  BY PushFields DEF Inv, TypeOK
<1>2. n \in Nat
  BY TableFacts
<1>3. LinksOf(table') /\ Len(table'.tab) = Len(table.tab)
  BY <1>1, TableFacts DEF LinksOf, TabAt
<1>4. \A i \in Stops(Len(table.tab)) : Walk(table', name)[i] = Walk(table, name)[i]
  BY <1>1, <1>3, TableFacts, SameWalk DEF TabAt
<1>5. Walk(table', name)[NO_INDEX] = NO_INDEX
  BY <1>3, TableFacts, WalkDef DEF Stops, Found, Hits
<1>6. LookupBlockScope(table', n, name) = NO_INDEX
  BY <1>1, <1>2, <1>5 DEF LookupBlockScope
<1>7. ASSUME NEW b \in 0 .. n - 1
      PROVE  LookupBlockScope(table', b, name) = LookupBlockScope(table, b, name)
  BY <1>1, <1>2, <1>4, TableFacts DEF LookupBlockScope
<1> QED
  BY <1>6, <1>7

(* An entry is found under its name in its block, and hides nothing else.  *)
LEMMA InsertLookups ==
  ASSUME Inv, NEW name \in Names,
         table' = Insert(table, name, "variable", "Integer", NO_INDEX, 0),
         NEW b \in 0 .. Len(table.btab) - 1, NEW key \in Names
  PROVE  LookupBlockScope(table', b, key) =
           IF b = CurrentBlock(table) /\ Folded[key] = Folded[name] THEN Len(table.tab)
           ELSE LookupBlockScope(table, b, key)
<1> DEFINE n == Len(table.tab)
           current == CurrentBlock(table)
<1>1. /\ Len(table'.tab) = n + 1
      /\ \A i \in 0 .. n - 1 : TabAt(table', i) = TabAt(table, i)
      /\ TabAt(table', n).identifier = name
      /\ TabAt(table', n).link = BTabAt(table, current).last
      /\ Len(table'.btab) = Len(table.btab)
      /\ \A c \in 0 .. Len(table.btab) - 1 :
           BTabAt(table', c).last = IF c = current THEN n ELSE BTabAt(table, c).last
  BY CurrentIsOpen, InsertFields DEF Inv, TypeOK
<1>2. n \in Nat /\ current \in 0 .. Len(table.btab) - 1
  BY CurrentIsOpen, TableFacts
<1>3. LinksOf(table')
  <2>1. BTabAt(table, current).last \in {NO_INDEX} \cup 0 .. n - 1
    BY <1>2, TableFacts DEF Stops
  <2> HIDE DEF n
  <2> QED
    BY <1>1, <1>2, <2>1, TableFacts, SMTT(40) DEF LinksOf, n
<1>4. \A i \in Stops(n) : Walk(table', key)[i] = Walk(table, key)[i]
  BY <1>1, <1>2, <1>3, TableFacts, SameWalk
<1>5. Walk(table', key)[n] = IF Folded[name] = Folded[key] THEN n
                             ELSE Walk(table', key)[BTabAt(table, current).last]
  <2>1. n \in Stops(Len(table'.tab)) /\ n # NO_INDEX
    BY <1>1, <1>2 DEF Stops, NO_INDEX
  <2> QED
    BY <1>1, <1>2, <1>3, <2>1, WalkDef DEF Found, Hits, NameEquals
<1>6. /\ LookupBlockScope(table', b, key) = Walk(table', key)[BTabAt(table', b).last]
      /\ LookupBlockScope(table, b, key) = Walk(table, key)[BTabAt(table, b).last]
  BY <1>1 DEF LookupBlockScope
<1>7. BTabAt(table, b).last \in Stops(n)
  BY TableFacts
<1> QED
  BY <1>1, <1>4, <1>5, <1>6, <1>7

-----------------------------------------------------------------------------
(* The refinement: every step is a step of Scopes, or leaves its state.    *)

LEMMA KeysAreNames ==
  /\ Identifiers \subseteq Names
  /\ \A n \in Identifiers : Folded[n] \in AbstractKeys
  /\ \A k \in AbstractKeys : k \in Names /\ Folded[k] = k
BY IdentifiersAssumption, NamesAssumption DEF AbstractKeys

(* Contents and Open, pointwise.                                           *)
LEMMA Shape ==
  ASSUME Inv
  PROVE  /\ Len(Contents) = Len(table.btab)
         /\ DOMAIN Contents = 1 .. Len(table.btab)
         /\ \A b \in 1 .. Len(table.btab) : Contents[b] = ScopeOf(table, b - 1)
         /\ Len(Open) = Len(table.scopes)
         /\ \A d \in 1 .. Len(table.scopes) :
              /\ Open[d] = table.scopes[d] + 1
              /\ Open[d] \in 1 .. Len(table.btab)
         /\ Abstract!Innermost = CurrentBlock(table) + 1
         /\ CurrentBlock(table) \in 0 .. Len(table.btab) - 1
<1>1. Len(table.btab) \in Nat /\ Len(table.scopes) \in Nat \ {0}
  BY TableFacts
<1>2. /\ Len(Contents) = Len(table.btab)
      /\ DOMAIN Contents = 1 .. Len(table.btab)
      /\ \A b \in 1 .. Len(table.btab) : Contents[b] = ScopeOf(table, b - 1)
  BY <1>1 DEF Contents
<1>3. /\ Len(Open) = Len(table.scopes)
      /\ \A d \in 1 .. Len(table.scopes) : Open[d] = table.scopes[d] + 1
  BY <1>1 DEF Open
<1>4. \A d \in 1 .. Len(table.scopes) : table.scopes[d] + 1 \in 1 .. Len(table.btab)
  <2>1. ASSUME NEW d \in 1 .. Len(table.scopes)
        PROVE  table.scopes[d] + 1 \in 1 .. Len(table.btab)
    <3>1. table.scopes[d] \in 0 .. Len(table.btab) - 1
      BY TableFacts
    <3> QED
      BY <1>1, <3>1
  <2> QED
    BY <2>1
<1>5. Abstract!Innermost = CurrentBlock(table) + 1
  BY <1>1, <1>3 DEF Abstract!Innermost, CurrentBlock
<1> QED
  BY <1>2, <1>3, <1>4, <1>5, CurrentIsOpen

LEMMA RefineInit == Init => Abstract!Init
<1> SUFFICES ASSUME Init PROVE Abstract!Init
  OBVIOUS
<1>1. Inv
  BY PredefinedInit
<1>2. table.scopes = << 0 >> /\ Len(table.btab) = 1
  <2> DEFINE t == EmptyTable
             tab == InitPredefined(t).tab
  <2>1. t.scopes = << 0 >> /\ t.btab = << NewBlock >> /\ CurrentBlock(t) = 0
    BY DEF EmptyTable, CurrentBlock
  <2>2. /\ InitPredefined(t).scopes = t.scopes
        /\ \E x : InitPredefined(t).btab = [t.btab EXCEPT ![CurrentBlock(t) + 1] = x]
    BY DEF InitPredefined, EmptyTable
  <2> HIDE DEF t
  <2>3. Len(InitPredefined(t).btab) = 1
    BY <2>1, <2>2
  <2> QED
    BY <2>1, <2>2, <2>3 DEF Init, t
<1>3. Open = << 1 >>
  BY <1>2 DEF Open
<1>4. Contents = << ScopeOf(InitPredefined(EmptyTable), 0) >>
  <2> DEFINE global == ScopeOf(InitPredefined(EmptyTable), 0)
  <2>1. table = InitPredefined(EmptyTable)
    BY DEF Init
  <2>2. ScopeOf(table, 0) = global
    BY <2>1
  <2> HIDE DEF global
  <2>3. Contents = [b \in 1 .. 1 |-> ScopeOf(table, b - 1)]
    BY <1>2 DEF Contents
  <2>4. \A b \in 1 .. 1 : ScopeOf(table, b - 1) = global
    <3>1. \A b \in 1 .. 1 : b - 1 = 0
      OBVIOUS
    <3> QED
      BY <2>2, <3>1
  <2>5. Contents = << global >>
    BY <2>3, <2>4
  <2> QED
    BY <2>5 DEF global
<1>5. Len(table.tab) \in Nat
  BY <1>1, TableFacts
<1> QED
  BY <1>3, <1>4, <1>5 DEF Init, Abstract!Init

LEMMA RefineResolve ==
  ASSUME Inv, NEW name \in Identifiers, LookupIdentifier(name)
  PROVE  Abstract!Resolve(Folded[name])
<1> DEFINE k == Folded[name]
           depths == 1 .. Len(table.scopes)
           hits == {d \in depths : LookupBlockScope(table, table.scopes[d], name) # NO_INDEX}
<1>1. k \in AbstractKeys /\ name \in Names
  BY KeysAreNames
<1>2. ASSUME NEW d \in depths
      PROVE  Contents[Open[d]][k] = LookupBlockScope(table, table.scopes[d], name)
  <2>1. /\ table.scopes[d] \in 0 .. Len(table.btab) - 1
        /\ Open[d] = table.scopes[d] + 1 /\ Open[d] \in 1 .. Len(table.btab)
    BY Shape, TableFacts
  <2>2. Contents[Open[d]] = ScopeOf(table, table.scopes[d])
    <3>1. Open[d] - 1 = table.scopes[d]
      BY <2>1
    <3> QED
      BY <2>1, <3>1, Shape
  <2> QED
    BY <1>1, <2>1, <2>2, SpellingsFound DEF ScopeOf
<1>3. {d \in 1 .. Len(Open) : Contents[Open[d]][k] # NO_INDEX} = hits
  BY <1>2, Shape
<1>4. hits # {} => Max(hits) \in depths
  <2> SUFFICES ASSUME hits # {} PROVE Max(hits) \in depths
    OBVIOUS
  <2>1. \E x \in hits : \A y \in hits : x >= y
    <3> DEFINE m == Len(table.scopes)
               T == {j \in Nat : m - j \in hits}
    <3>1. m \in Nat /\ hits \subseteq 1 .. m
      BY TableFacts
    <3>2. T \subseteq Nat
      OBVIOUS
    <3>3. T # {}
      <4>1. PICK d \in hits : TRUE
        OBVIOUS
      <4>2. m - d \in Nat /\ m - (m - d) = d
        BY <3>1, <4>1
      <4> QED
        BY <4>1, <4>2
    <3> HIDE DEF hits, m
    <3>4. PICK j \in T : \A i \in T : j <= i
      <4> HIDE DEF T
      <4> QED
        BY <3>2, <3>3, LeastNatural
    <3>5. ASSUME NEW y \in hits PROVE m - j >= y
      <4>1. m - y \in Nat /\ m - (m - y) = y
        BY <3>1, <3>5
      <4>2. j <= m - y
        BY <3>4, <3>5, <4>1
      <4> QED
        BY <3>1, <3>4, <3>5, <4>2
    <3> QED
      BY <3>4, <3>5
  <2>2. Max(hits) \in hits
    <3> HIDE DEF hits
    <3> QED
      BY <2>1 DEF Max
  <2> QED
    BY <2>2
<1>5. Lookup(table, name) =
        IF hits = {} THEN NO_INDEX
        ELSE LookupBlockScope(table, table.scopes[Max(hits)], name)
  BY Zenon DEF Lookup
<1>6. Abstract!Meaning(k) =
        IF hits = {} THEN NO_INDEX ELSE Contents[Open[Max(hits)]][k]
  <2> HIDE DEF hits, k
  <2>1. Abstract!Max(hits) = Max(hits)
    BY Zenon DEF Max, Abstract!Max
  <2> QED
    BY <1>3, <2>1, Zenon DEF Abstract!Meaning
<1>7. Abstract!Meaning(k) = Lookup(table, name)
  <2> HIDE DEF hits, k
  <2> QED
    BY <1>2, <1>4, <1>5, <1>6
<1>8. answer' = Abstract!Answer("resolve", 0, k, Lookup(table, name)) /\ UNCHANGED table
  BY DEF LookupIdentifier, Answer, Abstract!Answer, NO_INDEX
<1> QED
  BY <1>7, <1>8 DEF Abstract!Resolve, Contents, Open, ScopeOf

LEMMA RefineResolveIn ==
  ASSUME Inv, NEW name \in Identifiers, NEW block \in 0 .. Len(table.btab) - 1,
         LookupIn(block, name)
  PROVE  /\ block + 1 \in 1 .. Len(Contents)
         /\ Abstract!ResolveIn(block + 1, Folded[name])
<1>1. Len(table.btab) \in Nat
  BY TableFacts
<1>2. block + 1 \in 1 .. Len(table.btab) /\ (block + 1) - 1 = block
  BY <1>1
<1>3. Contents[block + 1] = ScopeOf(table, block)
  BY <1>2, Shape
<1>4. Contents[block + 1][Folded[name]] = LookupBlockScope(table, block, name)
  BY <1>3, KeysAreNames, SpellingsFound DEF ScopeOf
<1>5. answer' = Abstract!Answer("resolve", block + 1, Folded[name],
                                LookupBlockScope(table, block, name))
  BY DEF LookupIn, Answer, Abstract!Answer
<1> QED
  BY <1>2, <1>4, <1>5, Shape DEF LookupIn, Abstract!ResolveIn, Contents, Open, ScopeOf

LEMMA RefineEnter ==
  ASSUME Inv, EnterBlock
  PROVE  Abstract!Enter
<1> DEFINE n == Len(table.btab)
           m == Len(table.scopes)
           empty == [k \in AbstractKeys |-> NO_INDEX]
<1>0. n \in Nat /\ m \in Nat
  BY TableFacts
<1>1. /\ table' = PushBlock(table)
      /\ answer' = << >>
  BY DEF EnterBlock
<1>2. /\ table'.tab = table.tab
      /\ Len(table'.btab) = n + 1
      /\ Len(table'.scopes) = m + 1
      /\ \A d \in 1 .. m : table'.scopes[d] = table.scopes[d]
      /\ table'.scopes[m + 1] = n
  BY <1>1, PushFields DEF Inv, TypeOK
<1>3. ScopeOf(table', n) = empty
  <2>1. \A k \in AbstractKeys : LookupBlockScope(table', n, k) = NO_INDEX
    BY <1>1, PushLookups
  <2> QED
    BY <2>1 DEF ScopeOf
<1>4. \A b \in 0 .. n - 1 : ScopeOf(table', b) = ScopeOf(table, b)
  <2>1. ASSUME NEW b \in 0 .. n - 1 PROVE ScopeOf(table', b) = ScopeOf(table, b)
    <3>1. \A k \in AbstractKeys :
            LookupBlockScope(table', b, k) = LookupBlockScope(table, b, k)
      BY <1>1, PushLookups
    <3> QED
      BY <3>1 DEF ScopeOf
  <2> QED
    BY <2>1
<1> HIDE DEF n, m, empty
<1>5. Contents' = Append(Contents, empty)
  <2>1. Contents' = [b \in 1 .. n + 1 |-> ScopeOf(table', b - 1)]
    BY <1>2 DEF Contents
  <2>2. Contents = [b \in 1 .. n |-> ScopeOf(table, b - 1)]
    BY DEF Contents, n
  <2>3. Append(Contents, empty) =
          [b \in 1 .. n + 1 |-> IF b = n + 1 THEN empty ELSE ScopeOf(table, b - 1)]
    BY <1>0, <2>2
  <2>4. ASSUME NEW b \in 1 .. n + 1
        PROVE  ScopeOf(table', b - 1) = IF b = n + 1 THEN empty ELSE ScopeOf(table, b - 1)
    <3>1. CASE b = n + 1
      <4>1. b - 1 = n
        BY <1>0, <3>1
      <4> QED
        BY <1>3, <3>1, <4>1
    <3>2. CASE b # n + 1
      <4>1. b - 1 \in 0 .. n - 1
        BY <1>0, <3>2
      <4> QED
        BY <1>4, <3>2, <4>1
    <3> QED
      BY <3>1, <3>2
  <2> QED
    BY <2>1, <2>3, <2>4
<1>6. Open' = Append(Open, n + 1)
  <2>1. Open' = [d \in 1 .. m + 1 |-> table'.scopes[d] + 1]
    BY <1>2 DEF Open
  <2>2. Open = [d \in 1 .. m |-> table.scopes[d] + 1]
    BY DEF Open, m
  <2>3. Append(Open, n + 1) =
          [d \in 1 .. m + 1 |-> IF d = m + 1 THEN n + 1 ELSE table.scopes[d] + 1]
    BY <1>0, <2>2
  <2>4. \A d \in 1 .. m + 1 :
          table'.scopes[d] + 1 = IF d = m + 1 THEN n + 1 ELSE table.scopes[d] + 1
    BY <1>0, <1>2
  <2> QED
    BY <2>1, <2>3, <2>4
<1>7. Len(Contents) = n
  BY Shape DEF n
<1> QED
  BY <1>1, <1>2, <1>5, <1>6, <1>7 DEF Abstract!Enter, empty

LEMMA RefineLeave ==
  ASSUME Inv, LeaveBlock
  PROVE  Abstract!Leave
<1> DEFINE m == Len(table.scopes)
<1>1. m \in Nat /\ m > 1 /\ table.level > 0 /\ table \in Table
  BY CurrentIsOpen, TableFacts DEF LeaveBlock, Inv, TypeOK, Table
<1>2. /\ table'.tab = table.tab
      /\ table'.btab = table.btab
      /\ Len(table'.scopes) = m - 1
      /\ \A d \in 1 .. m - 1 : table'.scopes[d] = table.scopes[d]
  BY <1>1, PopFields DEF LeaveBlock
<1>3. Contents' = Contents
  BY <1>2 DEF Contents, ScopeOf, LookupBlockScope, Walk, TabAt, BTabAt
<1> HIDE DEF m
<1>4. Open' = SubSeq(Open, 1, m - 1)
  <2>1. Open' = [d \in 1 .. m - 1 |-> table'.scopes[d] + 1]
    BY <1>2 DEF Open
  <2>2. Open = [d \in 1 .. m |-> table.scopes[d] + 1]
    BY DEF Open, m
  <2>3. SubSeq(Open, 1, m - 1) = [d \in 1 .. m - 1 |-> table.scopes[d] + 1]
    BY <1>1, <2>2
  <2> QED
    BY <1>2, <2>1, <2>3
<1>5. Len(Open) = m
  BY Shape DEF m
<1> QED
  BY <1>1, <1>2, <1>3, <1>4, <1>5 DEF LeaveBlock, Abstract!Leave

LEMMA RefineDeclare ==
  ASSUME Inv, NEW name \in Identifiers, DeclareIdentifier(name)
  PROVE  Abstract!Declare(Folded[name])
<1> DEFINE key == Folded[name]
           current == CurrentBlock(table)
           n == Len(table.tab)
<1>1. /\ name \in Names /\ key \in AbstractKeys
      /\ \A k \in AbstractKeys : k \in Names /\ Folded[k] = k
  BY KeysAreNames
<1>2. /\ current \in 0 .. Len(table.btab) - 1
      /\ current + 1 \in 1 .. Len(table.btab) /\ (current + 1) - 1 = current
      /\ Len(table.btab) \in Nat /\ n \in Nat
      /\ Abstract!Innermost = current + 1
  BY Shape, TableFacts
<1>3. Contents[current + 1] = ScopeOf(table, current)
  BY <1>2, Shape
<1>4. Contents[current + 1][key] = LookupCurrentScope(table, name)
  BY <1>1, <1>2, <1>3, SpellingsFound DEF ScopeOf, LookupCurrentScope
<1> HIDE DEF key, current, n
<1>5. CASE LookupCurrentScope(table, name) # NO_INDEX
  <2>1. /\ answer' = Abstract!Answer("declare", current + 1, key, NO_INDEX)
        /\ UNCHANGED table
    BY <1>5 DEF DeclareIdentifier, Answer, Abstract!Answer, key, current
  <2> QED
    BY <1>2, <1>4, <1>5, <2>1 DEF Abstract!Declare, Contents, Open, ScopeOf, key
<1>6. CASE LookupCurrentScope(table, name) = NO_INDEX
  <2>1. /\ table' = Insert(table, name, "variable", "Integer", NO_INDEX, 0)
        /\ answer' = Answer("declare", current, name, Inserted(table'))
    BY <1>6 DEF DeclareIdentifier, current
  <2>2. /\ Len(table'.tab) = n + 1
        /\ Len(table'.btab) = Len(table.btab)
        /\ table'.scopes = table.scopes
    BY <1>1, <1>2, <2>1, InsertFields DEF Inv, TypeOK, n, current
  <2>3. Inserted(table') = n
    BY <1>2, <2>2 DEF Inserted
  <2>4. answer' = Abstract!Answer("declare", current + 1, key, n)
    BY <2>1, <2>3 DEF Answer, Abstract!Answer, key
  <2>5. ASSUME NEW b \in 0 .. Len(table.btab) - 1
        PROVE  ScopeOf(table', b) =
                 IF b = current THEN [ScopeOf(table, b) EXCEPT ![key] = n]
                 ELSE ScopeOf(table, b)
    <3>1. ASSUME NEW k \in AbstractKeys
          PROVE  LookupBlockScope(table', b, k) =
                   IF b = current /\ k = key THEN n ELSE LookupBlockScope(table, b, k)
      <4>1. k \in Names /\ (Folded[k] = Folded[name] <=> k = key)
        BY <1>1 DEF key
      <4> QED
        BY <1>1, <2>1, <4>1, InsertLookups DEF current, n
    <3> QED
      BY <1>1, <3>1 DEF ScopeOf
  <2>6. Contents' = [Contents EXCEPT ![current + 1] = [Contents[current + 1] EXCEPT ![key] = n]]
    <3> DEFINE updated == [ScopeOf(table, current) EXCEPT ![key] = n]
    <3>1. Contents' = [b \in 1 .. Len(table.btab) |-> ScopeOf(table', b - 1)]
      BY <2>2 DEF Contents
    <3>2. ASSUME NEW b \in 1 .. Len(table.btab)
          PROVE  ScopeOf(table', b - 1) = IF b = current + 1 THEN updated ELSE Contents[b]
      <4>1. b - 1 \in 0 .. Len(table.btab) - 1 /\ (b - 1 = current <=> b = current + 1)
        BY <1>2
      <4>2. Contents[b] = ScopeOf(table, b - 1)
        BY Shape
      <4> QED
        BY <2>5, <4>1, <4>2
    <3> HIDE DEF updated
    <3>3. Contents' = [Contents EXCEPT ![current + 1] = updated]
      BY <3>1, <3>2 DEF Contents
    <3> QED
      BY <1>3, <3>3 DEF updated
  <2>7. Open' = Open
    BY <2>2 DEF Open
  <2> QED
    BY <1>2, <1>4, <1>6, <2>2, <2>4, <2>6, <2>7 DEF Abstract!Declare, key, n
<1> QED
  BY <1>5, <1>6

LEMMA RefineStep == Inv /\ [Next]_vars => [Abstract!Next]_(Abstract!vars)
<1> SUFFICES ASSUME Inv, [Next]_vars PROVE [Abstract!Next]_(Abstract!vars)
  OBVIOUS
<1>0. \A name \in Identifiers : Folded[name] \in AbstractKeys
  BY KeysAreNames
<1>1. ASSUME NEW name \in Identifiers, DeclareIdentifier(name) PROVE Abstract!Next
  BY <1>0, <1>1, RefineDeclare DEF Abstract!Next
<1>2. ASSUME NEW name \in Identifiers, LookupIdentifier(name) PROVE Abstract!Next
  BY <1>0, <1>2, RefineResolve DEF Abstract!Next
<1>3. ASSUME NEW name \in Identifiers, NEW block \in 0 .. Len(table.btab) - 1,
             LookupIn(block, name)
      PROVE  Abstract!Next
  BY <1>0, <1>3, RefineResolveIn DEF Abstract!Next
<1>4. CASE EnterBlock
  BY <1>4, RefineEnter DEF Abstract!Next
<1>5. CASE LeaveBlock
  BY <1>5, RefineLeave DEF Abstract!Next
<1>6. CASE UNCHANGED vars
  BY <1>6 DEF vars, Abstract!vars, Contents, Open, ScopeOf
<1> QED
  BY <1>1, <1>2, <1>3, <1>4, <1>5, <1>6 DEF Next

(* The table implements nested scopes: whatever was declared, opened and   *)
(* closed, a lookup finds the innermost declaration, spellings that differ *)
(* in case are one name, a name is declared once per block, and a closed   *)
(* block never changes.                                                    *)
THEOREM Refinement == Spec => ImplementsScopes
<1>1. Inv /\ [Next]_vars => [Abstract!Next]_(Abstract!vars)
  BY RefineStep
<1>2. Init => Abstract!Init
  BY RefineInit
<1> QED
  BY <1>1, <1>2, Structure, PTL DEF Spec, ImplementsScopes, Abstract!Spec
==============================================================================
