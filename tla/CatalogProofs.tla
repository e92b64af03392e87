--------------------------- MODULE CatalogProofs ---------------------------
(***************************************************************************)
(* Theorems about Catalog, for any tables, index names and commits.        *)
(***************************************************************************)
EXTENDS Catalog, FiniteSetTheorems, WellFoundedInduction, TLAPS

(* What the catalog may hold, whoever changes it. *)
TableShapes ==
  [columns : SUBSET (Nat \ {0}), keys : {d.keys : d \in TableDefs}, rows : Nat]
IndexShapes == [table : Tables, terms : Terms, unique : BOOLEAN]

Working == {"index_list", "index_info", "foreign_key_list", "count"}
Described == {d.table : d \in schema}

TypeInv ==
  /\ DOMAIN tables \subseteq Tables
  /\ \A t \in DOMAIN tables : tables[t] \in TableShapes
  /\ DOMAIN indexes \subseteq Indexes
  /\ \A i \in DOMAIN indexes : indexes[i] \in IndexShapes
  /\ pc \in Working \cup {"list", "done", "failed"}
  /\ todo \subseteq Tables /\ dropped \subseteq Tables
  /\ commits \in Nat /\ since \in Nat /\ since <= commits

(* A table that was not dropped is there, and once the tables are listed   *)
(* it is described or still to be described.                               *)
ProgressInv ==
  /\ Tables \ dropped \subseteq DOMAIN tables
  /\ pc = "list" => todo = {} /\ schema = {}
  /\ pc # "list" => Tables \ dropped \subseteq todo \cup Described
  /\ pc \in Working => todo # {}
  /\ pc = "done" => todo = {}
  /\ pc = "failed" => dropped \cap todo # {}
  /\ todo \cap Described = {}
  /\ \A d, e \in schema : d.table = e.table => d = e

(* What is listed of an index was so when it was listed, and its columns   *)
(* were those of its name when that was looked at.                         *)
WasListed(e) ==
  /\ e.name \in Indexes
  /\ \E v \in versions[e.name] : v.table = Table /\ v.unique = e.unique
WasNamed(e) == e.columns = <<>> \/ \E w \in versions[e.name] : e.columns = Named(w.terms)

VersionsInv ==
  /\ versions \in [Indexes -> SUBSET IndexShapes]
  /\ \A i \in DOMAIN indexes : indexes[i] \in versions[i]
  /\ pc \in {"list", "index_list", "done"} => pending = {} /\ found = {}
  /\ pc \in {"list", "index_list", "index_info"} => columns = {}
  /\ \A e \in pending : WasListed(e)
  /\ \A e \in found : WasListed(e) /\ WasNamed(e)
  /\ \A c \in columns : c.unique => c.column \in UniqueColumns

(* While nothing is committed, what is collected of the table is the truth. *)
Entry(i) == [name |-> i, unique |-> indexes[i].unique]
Looked(i) == [name |-> i, unique |-> indexes[i].unique, columns |-> Named(indexes[i].terms)]

TruthInv ==
  since = commits =>
    /\ pc = "index_info" =>
         /\ pending \subseteq {Entry(i) : i \in IndexesOf(Table)}
         /\ found = {Looked(i) : i \in {j \in IndexesOf(Table) : Entry(j) \notin pending}}
    /\ pc \in {"foreign_key_list", "count"} /\ Exists =>
         /\ found = Description(Table).indexes
         /\ columns = Description(Table).columns
    /\ pc = "count" /\ Exists => keys = tables[Table].keys

CatalogInv == TypeInv /\ ProgressInv /\ VersionsInv /\ UniqueWasSo /\ TruthInv

-----------------------------------------------------------------------------
(* There is a least table among those to do, and it is the one in work. *)
LEMMA TableToDo ==
  ASSUME TypeInv, todo # {}
  PROVE  Table \in todo /\ Table \in Tables
<1>1. todo \subseteq Nat
  BY CatalogAssumption DEF TypeInv
<1>2. PICK t \in todo : \A u \in todo : ~ (<<u, t>> \in OpToRel(<, Nat))
  BY <1>1, NatLessThanWellFounded, WFMin, Zenon
<1>3. \A u \in todo : t <= u
  <2> SUFFICES ASSUME NEW u \in todo, u < t PROVE FALSE
    BY <1>1
  <2> QED
    BY <1>1, <1>2 DEF OpToRel
<1> QED
  BY <1>3 DEF Table, TypeInv

(* A set of one in order, and how many columns an index names. *)
LEMMA OrderedOne ==
  ASSUME NEW x \in Nat
  PROVE  Ordered({x}, <) = [k \in 1..1 |-> x]
<1>1. Cardinality({x}) = 1
  BY FS_Singleton
<1>2. {y \in {x} : y < x} = {}
  OBVIOUS
<1>3. Cardinality({y \in {x} : y < x}) = 0
  BY <1>2, FS_EmptySet
<1>4. (CHOOSE z \in {x} : Cardinality({y \in {x} : y < z}) = 1 - 1) = x
  BY <1>3
<1> QED
  BY <1>1, <1>4 DEF Ordered

LEMMA NamedLength ==
  ASSUME NEW terms \in Seq(Nat), NEW places, places = {j \in DOMAIN terms : terms[j] # Expression}
  PROVE  /\ IsFiniteSet(places) /\ Cardinality(places) \in Nat
         /\ Len(Named(terms)) = Cardinality(places)
<1>1. IsFiniteSet(places) /\ Cardinality(places) \in Nat
  <2>1. DOMAIN terms = 1..Len(terms) /\ Len(terms) \in Nat
    OBVIOUS
  <2>2. IsFiniteSet(1..Len(terms))
    BY <2>1, FS_Interval
  <2> QED
    BY <2>1, <2>2, FS_Subset, FS_CardinalityType
<1> DEFINE order == Ordered(places, <)
<1>2. DOMAIN order = 1..Cardinality(places)
  BY DEF Ordered
<1>3. Named(terms) = [k \in 1..Cardinality(places) |-> terms[order[k]]]
  BY <1>2 DEF Named
<1> HIDE DEF order
<1> QED
  BY <1>1, <1>3

(* An index describes one column exactly when it names it and no other.    *)
LEMMA NamedOne ==
  ASSUME NEW terms \in Seq(Nat)
  PROVE  /\ Len(Named(terms)) = 1 => Named(terms) = <<Named(terms)[1]>>
         /\ \A c \in Nat \ {Expression} :
              Len(Named(terms)) = 1 /\ Named(terms)[1] = c
              <=> \E k \in DOMAIN terms :
                    terms[k] = c /\ \A j \in DOMAIN terms \ {k} : terms[j] = Expression
<1> DEFINE places == {j \in DOMAIN terms : terms[j] # Expression}
<1>1. /\ IsFiniteSet(places) /\ Cardinality(places) \in Nat
      /\ Len(Named(terms)) = Cardinality(places)
  BY NamedLength
<1>2. ASSUME NEW k, places = {k}
      PROVE  Named(terms) = <<terms[k]>> /\ Len(Named(terms)) = 1
  <2>1. k \in Nat
    BY <1>2
  <2>2. Ordered(places, <) = [m \in 1..1 |-> k]
    BY <1>2, <2>1, OrderedOne
  <2>3. Named(terms) = [m \in 1..1 |-> terms[k]]
    BY <2>2, Zenon DEF Named
  <2> QED
    BY <2>3
<1>3. Len(Named(terms)) = 1 => \E k : places = {k}
  BY <1>1, FS_Singleton
<1>4. ASSUME NEW k, places = {k}
      PROVE  /\ k \in DOMAIN terms /\ terms[k] # Expression
             /\ \A j \in DOMAIN terms \ {k} : terms[j] = Expression
  BY <1>4
<1>5. ASSUME NEW k \in DOMAIN terms, terms[k] # Expression,
             \A j \in DOMAIN terms \ {k} : terms[j] = Expression
      PROVE  places = {k}
  BY <1>5
<1> HIDE DEF places
<1>6. Len(Named(terms)) = 1 => Named(terms) = <<Named(terms)[1]>>
  <2> SUFFICES ASSUME Len(Named(terms)) = 1 PROVE Named(terms) = <<Named(terms)[1]>>
    OBVIOUS
  <2>1. PICK k : places = {k}
    BY <1>3
  <2>2. Named(terms) = <<terms[k]>>
    BY <1>2, <2>1
  <2> QED
    BY <2>2
<1>7. ASSUME NEW c \in Nat \ {Expression}, Len(Named(terms)) = 1, Named(terms)[1] = c
      PROVE  \E k \in DOMAIN terms :
               terms[k] = c /\ \A j \in DOMAIN terms \ {k} : terms[j] = Expression
  <2>1. PICK k : places = {k}
    BY <1>3, <1>7
  <2>2. Named(terms) = <<terms[k]>>
    BY <1>2, <2>1
  <2>3. /\ k \in DOMAIN terms
        /\ \A j \in DOMAIN terms \ {k} : terms[j] = Expression
    BY <1>4, <2>1
  <2> QED
    BY <1>7, <2>2, <2>3
<1>8. ASSUME NEW c \in Nat \ {Expression}, NEW k \in DOMAIN terms, terms[k] = c,
             \A j \in DOMAIN terms \ {k} : terms[j] = Expression
      PROVE  Len(Named(terms)) = 1 /\ Named(terms)[1] = c
  BY <1>2, <1>5, <1>8
<1> QED
  BY <1>6, <1>7, <1>8

LEMMA TermsTypes == Terms \subseteq Seq(Nat)
<1>1. <<1>> \in Seq(Nat) /\ <<2, 1>> \in Seq(Nat) /\ <<Expression, 1>> \in Seq(Nat)
  BY DEF Expression
<1> QED
  BY <1>1, Zenon DEF Terms

(* The rows of a foreign key, and of its first columns, are as many as     *)
(* their columns.                                                          *)
Row(id, key, j) == [id |-> id, seq |-> j, column |-> key[j]]
Rows(id, key, n) == {Row(id, key, j) : j \in 1..n}
InSequence(rows) == Ordered(rows, BySequence)

LEMMA RowsCounted ==
  ASSUME NEW n \in Nat, NEW id, NEW key
  PROVE  Cardinality(Rows(id, key, n)) = n
<1> DEFINE rows == Rows(id, key, n)
           f == [j \in 1..n |-> Row(id, key, j)]
<1>1. f \in Bijection(1..n, rows)
  <2>1. f \in [1..n -> rows]
    BY DEF Rows
  <2>2. \A a, b \in 1..n : f[a] = f[b] => a = b
    BY DEF Row
  <2>3. \A r \in rows : \E j \in 1..n : f[j] = r
    BY DEF Rows
  <2> QED
    BY <2>1, <2>2, <2>3 DEF Bijection, Injection, Surjection, IsInjective
<1>2. IsFiniteSet(1..n) /\ Cardinality(1..n) = n
  BY FS_Interval
<1> QED
  BY <1>1, <1>2, FS_Bijection DEF ExistsBijection

(* Sorted by their sequence numbers, the rows are in the order of the key. *)
LEMMA RowsOrdered ==
  ASSUME NEW n \in Nat, NEW id, NEW key
  PROVE  InSequence(Rows(id, key, n)) = [j \in 1..n |-> Row(id, key, j)]
<1> DEFINE rows == Rows(id, key, n)
<1>1. Cardinality(rows) = n
  BY RowsCounted
<1>2. ASSUME NEW j \in 1..n
      PROVE  Cardinality({y \in rows : BySequence(y, Row(id, key, j))}) = j - 1
  <2>1. {y \in rows : BySequence(y, Row(id, key, j))} = Rows(id, key, j - 1)
    BY DEF BySequence, Rows, Row
  <2> QED
    BY <2>1, RowsCounted, j - 1 \in Nat
<1>3. ASSUME NEW j \in 1..n
      PROVE  (CHOOSE x \in rows : Cardinality({y \in rows : BySequence(y, x)}) = j - 1) = Row(id, key, j)
  <2>1. Row(id, key, j) \in rows
    BY DEF Rows
  <2>2. \A x \in rows : Cardinality({y \in rows : BySequence(y, x)}) = j - 1 => x = Row(id, key, j)
    <3> SUFFICES ASSUME NEW m \in 1..n,
                        Cardinality({y \in rows : BySequence(y, Row(id, key, m))}) = j - 1
                 PROVE  m = j
      BY DEF Rows
    <3> QED
      BY <1>2
  <2>3. Cardinality({y \in rows : BySequence(y, Row(id, key, j))}) = j - 1
    BY <1>2
  <2> QED
    BY <2>1, <2>2, <2>3, Zenon
<1> QED
  BY <1>1, <1>3 DEF Ordered, InSequence

(* So grouping the rows of a table's foreign keys gives the keys back.     *)
LEMMA KeysGrouped ==
  ASSUME NEW t \in DOMAIN tables, tables[t].keys \in {d.keys : d \in TableDefs}
  PROVE  Grouped(KeyRows(t)) = tables[t].keys
<1> DEFINE keysOf == tables[t].keys
           ids == {r.id : r \in KeyRows(t)}
<1>1. keysOf = <<>> \/ keysOf = <<<<2, 1>>, <<1>>>>
  BY DEF TableDefs
<1>2. /\ keysOf \in Seq(Seq(Nat))
      /\ \A i \in DOMAIN keysOf : Len(keysOf[i]) \in Nat /\ Len(keysOf[i]) > 0
  <2>1. CASE keysOf = <<>>
    BY <2>1
  <2>2. CASE keysOf = <<<<2, 1>>, <<1>>>>
    <3>1. <<2, 1>> \in Seq(Nat) /\ <<1>> \in Seq(Nat)
      OBVIOUS
    <3>2. Len(keysOf) = 2 /\ keysOf[1] = <<2, 1>> /\ keysOf[2] = <<1>> /\ DOMAIN keysOf = {1, 2}
      BY <2>2
    <3>3. keysOf \in Seq(Seq(Nat))
      BY <2>2, <3>1
    <3> QED
      <4>1. Len(<<2, 1>>) = 2 /\ Len(<<1>>) = 1
        OBVIOUS
      <4>2. \A i \in DOMAIN keysOf : keysOf[i] \in {<<2, 1>>, <<1>>}
        BY <3>2
      <4>3. ASSUME NEW i \in DOMAIN keysOf
            PROVE  Len(keysOf[i]) \in Nat /\ Len(keysOf[i]) > 0
        <5>1. CASE keysOf[i] = <<2, 1>>
          BY <4>1, <5>1
        <5>2. CASE keysOf[i] = <<1>>
          BY <4>1, <5>2
        <5> HIDE DEF keysOf
        <5> QED
          BY <4>2, <5>1, <5>2
      <4> HIDE DEF keysOf
      <4> QED
        BY <3>3, <4>3
  <2> QED
    BY <1>1, <2>1, <2>2
<1> HIDE DEF keysOf
<1>3. KeyRows(t) = UNION {{Row(i, keysOf[i], j) : j \in DOMAIN keysOf[i]} : i \in DOMAIN keysOf}
  BY DEF KeyRows, Row, keysOf
<1>4. \A i \in DOMAIN keysOf : DOMAIN keysOf[i] = 1..Len(keysOf[i]) /\ keysOf[i] \in Seq(Nat)
  BY <1>2
<1>5. \A i \in DOMAIN keysOf : {r \in KeyRows(t) : r.id = i} = Rows(i, keysOf[i], Len(keysOf[i]))
  BY <1>3, <1>4 DEF Row, Rows
<1>6. ids = DOMAIN keysOf
  <2>1. ids \subseteq DOMAIN keysOf
    BY <1>3 DEF Row
  <2>2. ASSUME NEW i \in DOMAIN keysOf PROVE i \in ids
    <3>1. 1 \in DOMAIN keysOf[i]
      BY <1>2, <1>4
    <3>2. Row(i, keysOf[i], 1) \in KeyRows(t)
      BY <1>3, <3>1
    <3> QED
      BY <3>2 DEF Row
  <2> QED
    BY <2>1, <2>2
<1>7. ASSUME NEW i \in DOMAIN keysOf
      PROVE  LET key == Ordered({r \in KeyRows(t) : r.id = i}, BySequence)
             IN [j \in DOMAIN key |-> key[j].column] = keysOf[i]
  <2> DEFINE rows == {r \in KeyRows(t) : r.id = i}
             key == InSequence(rows)
             n == Len(keysOf[i])
  <2>1. key = [j \in 1..n |-> Row(i, keysOf[i], j)]
    <3>1. n \in Nat
      BY <1>2
    <3>2. rows = Rows(i, keysOf[i], n)
      BY <1>5
    <3> HIDE DEF rows, n
    <3> QED
      BY <3>1, <3>2, RowsOrdered
  <2> HIDE DEF key
  <2>2. [j \in DOMAIN key |-> key[j].column] = [j \in 1..n |-> keysOf[i][j]]
    BY <2>1 DEF Row
  <2>3. [j \in 1..n |-> keysOf[i][j]] = keysOf[i]
    BY <1>2, <1>4
  <2> QED
    BY <2>2, <2>3, Zenon DEF key, InSequence
<1>8. Grouped(KeyRows(t)) = [i \in DOMAIN keysOf |-> keysOf[i]]
  BY <1>6, <1>7, Zenon DEF Grouped
<1> QED
  BY <1>2, <1>8 DEF keysOf
-----------------------------------------------------------------------------
(* An index is on a table there is. *)
LEMMA IndexTypes ==
  ASSUME DOMAIN tables \subseteq Tables
  PROVE  IndexDefs \subseteq IndexShapes
<1>1. <<1>> \in Terms
  BY Zenon DEF Terms
<1>2. [table : DOMAIN tables, terms : Terms, unique : {TRUE}] \subseteq IndexShapes
  BY DEF IndexShapes
<1>3. [table : DOMAIN tables, terms : {<<1>>}, unique : {FALSE}] \subseteq IndexShapes
  BY <1>1 DEF IndexShapes
<1> QED
  BY <1>2, <1>3 DEF IndexDefs

LEMMA InitCatalog == Init => CatalogInv
<1> SUFFICES ASSUME Init PROVE CatalogInv
  OBVIOUS
<1>1. TypeInv
  <2>1. \A t \in DOMAIN tables : tables[t] \in TableShapes
    BY DEF Init, TableDefs, TableShapes
  <2>2. DOMAIN indexes \subseteq Indexes
    BY DEF Init
  <2>3. \A i \in DOMAIN indexes : indexes[i] \in IndexShapes
    <3>1. DOMAIN tables \subseteq Tables
      BY DEF Init
    <3>2. \A i \in DOMAIN indexes : indexes[i] \in IndexDefs
      BY DEF Init
    <3> QED
      BY <3>1, <3>2, IndexTypes
  <2> QED
    BY <2>1, <2>2, <2>3, CatalogAssumption DEF Init, TypeInv
<1>2. ProgressInv
  BY DEF Init, ProgressInv, Working, Described
<1>3. VersionsInv
  BY <1>1 DEF Init, VersionsInv, TypeInv, Working
<1>4. UniqueWasSo /\ TruthInv
  BY DEF Init, UniqueWasSo, TruthInv
<1> QED
  BY <1>1, <1>2, <1>3, <1>4 DEF CatalogInv

(* The tables and indexes other connections leave. *)
LEMMA CommitTypes ==
  ASSUME TypeInv, CreateTable \/ DropTable \/ CreateIndex \/ DropIndex \/ InsertRow
  PROVE  /\ DOMAIN tables' \subseteq Tables /\ \A t \in DOMAIN tables' : tables'[t] \in TableShapes
         /\ DOMAIN indexes' \subseteq Indexes
         /\ \A i \in DOMAIN indexes' : indexes'[i] \in IndexShapes
<1>1. CASE CreateTable
  <2>1. PICK t \in Tables \ DOMAIN tables, d \in TableDefs : tables' = Set(tables, t, d)
    BY <1>1 DEF CreateTable
  <2>2. d \in TableShapes
    BY DEF TableDefs, TableShapes
  <2> QED
    BY <1>1, <2>1, <2>2 DEF CreateTable, TypeInv, Set
<1>2. CASE DropTable
  BY <1>2 DEF DropTable, TypeInv, Without
<1>3. CASE CreateIndex
  <2>1. PICK i \in Indexes, d \in IndexDefs : indexes' = Set(indexes, i, d)
    BY <1>3 DEF CreateIndex
  <2>2. d \in IndexShapes
    BY IndexTypes DEF TypeInv
  <2> QED
    BY <1>3, <2>1, <2>2 DEF CreateIndex, TypeInv, Set
<1>4. CASE DropIndex
  BY <1>4 DEF DropIndex, TypeInv, Without
<1>5. CASE InsertRow
  <2>1. PICK t \in DOMAIN tables : tables' = [tables EXCEPT ![t].rows = @ + 1]
    BY <1>5 DEF InsertRow
  <2>2. [tables[t] EXCEPT !.rows = @ + 1] \in TableShapes
    BY DEF TypeInv, TableShapes
  <2> QED
    BY <1>5, <2>1, <2>2 DEF InsertRow, TypeInv
<1> QED
  BY <1>1, <1>2, <1>3, <1>4, <1>5

LEMMA TypeStep ==
  ASSUME TypeInv, ProgressInv, [Next]_vars
  PROVE  TypeInv'
<1>1. ASSUME pc \in Working PROVE Table \in Tables
  BY <1>1, TableToDo DEF ProgressInv
<1>2. CASE InspectSchema
  <2>1. /\ UNCHANGED catalog /\ UNCHANGED history
        /\ pc' \in Working \cup {"list", "done", "failed"}
    BY <1>2 DEF InspectSchema, ListTables, ListIndexes, InspectIndex, InspectColumns,
       InspectKeys,
                CountRows, Finished, Failed, GoTo, Working
  <2>2. todo' \subseteq Tables /\ since' \in {since, commits}
    BY <1>2 DEF InspectSchema, ListTables, ListIndexes, InspectIndex, InspectColumns,
       InspectKeys,
                CountRows, Finished, Failed, TypeInv
  <2> QED
    BY <2>1, <2>2 DEF TypeInv, catalog, history
<1>3. CASE CreateTable \/ DropTable \/ CreateIndex \/ DropIndex \/ InsertRow
  <2>1. Commit /\ dropped' \subseteq Tables
    BY <1>3 DEF CreateTable, DropTable, CreateIndex, DropIndex, InsertRow, TypeInv
  <2> QED
    BY <1>3, <2>1, CommitTypes DEF Commit, TypeInv
<1>4. CASE UNCHANGED vars
  BY <1>4 DEF vars, catalog, work, history, TypeInv
<1> QED
  BY <1>2, <1>3, <1>4 DEF Next

(* Tables are described once each, and none is passed over. *)
LEMMA ProgressStep ==
  ASSUME TypeInv, ProgressInv, [Next]_vars
  PROVE  ProgressInv'
<1>1. CASE ListTables
  BY <1>1 DEF ListTables, GoTo, catalog, history, ProgressInv, Described, Working, TypeInv
<1>2. CASE ListIndexes \/ InspectIndex \/ InspectColumns \/ InspectKeys
  <2>1. pc \in Working /\ pc' \in Working /\ UNCHANGED <<catalog, history, todo, schema>>
    BY <1>2 DEF ListIndexes, InspectIndex, InspectColumns, InspectKeys, GoTo, Working
  <2> QED
    BY <2>1 DEF catalog, history, ProgressInv, Described, Working
<1>3. CASE CountRows
  <2>0. pc \in Working /\ todo # {} /\ Table \in todo /\ Table \in Tables
    BY <1>3, TableToDo DEF CountRows, Working, ProgressInv
  <2>1. CASE Exists
    <3>1. Finished
      BY <1>3, <2>1 DEF CountRows
    <3> DEFINE new == [table |-> Table, columns |-> columns, keys |-> keys, indexes |-> found,
                       rows |-> tables[Table].rows]
    <3>2. /\ schema' = schema \cup {new} /\ todo' = todo \ {Table}
          /\ pc' = IF todo' = {} THEN "done" ELSE "index_list"
          /\ UNCHANGED <<tables, dropped>>
      BY <3>1 DEF Finished, GoTo, catalog, history
    <3>3. Described' = Described \cup {Table}
      <4>1. new.table = Table
        OBVIOUS
      <4> HIDE DEF new
      <4> QED
        BY <3>2, <4>1 DEF Described
    <3>4. Table \notin Described
      BY <2>0 DEF ProgressInv
    <3>5. \A d, e \in schema' : d.table = e.table => d = e
      <4>1. \A d \in schema : d.table # new.table
        BY <3>4 DEF Described
      <4> HIDE DEF new
      <4> QED
        BY <3>2, <4>1 DEF ProgressInv
    <3> QED
      BY <2>0, <3>2, <3>3, <3>4, <3>5 DEF ProgressInv, Working
  <2>2. CASE ~ Exists
    <3>1. pc' = "failed" /\ UNCHANGED <<tables, dropped, schema, todo>>
      BY <1>3, <2>2 DEF CountRows, Failed, GoTo, catalog, history
    <3>2. Table \in dropped
      BY <2>0, <2>2 DEF Exists, ProgressInv
    <3> QED
      BY <2>0, <3>1, <3>2 DEF ProgressInv, Described, Working
  <2> QED
    BY <2>1, <2>2
<1>4. CASE CreateTable \/ DropTable \/ CreateIndex \/ DropIndex \/ InsertRow
  <2>1. UNCHANGED <<pc, todo, schema>> /\ pc \notin {"done", "failed"} /\ dropped \subseteq dropped'
    BY <1>4 DEF CreateTable, DropTable, CreateIndex, DropIndex, InsertRow, Commit
  <2>2. Tables \ dropped' \subseteq DOMAIN tables'
    <3>1. CASE CreateTable
      BY <3>1 DEF CreateTable, Set, ProgressInv
    <3>2. CASE DropTable
      BY <3>2 DEF DropTable, Without, ProgressInv
    <3>3. CASE CreateIndex \/ DropIndex
      BY <3>3 DEF CreateIndex, DropIndex, ProgressInv
    <3>4. CASE InsertRow
      BY <3>4 DEF InsertRow, ProgressInv
    <3> QED
      BY <1>4, <3>1, <3>2, <3>3, <3>4
  <2> QED
    BY <2>1, <2>2 DEF ProgressInv, Described
<1>5. CASE UNCHANGED vars
  BY <1>5 DEF vars, catalog, work, history, ProgressInv, Described
<1> QED
  BY <1>1, <1>2, <1>3, <1>4, <1>5 DEF Next, InspectSchema
(* What an index name has stood for is not forgotten. *)
LEMMA VersionsStep ==
  ASSUME TypeInv, VersionsInv, [Next]_vars
  PROVE  /\ versions' \in [Indexes -> SUBSET IndexShapes]
         /\ \A i \in DOMAIN indexes' : indexes'[i] \in versions'[i]
         /\ \A i \in Indexes : versions[i] \subseteq versions'[i]
<1>1. CASE InspectSchema \/ UNCHANGED vars
  <2>1. UNCHANGED catalog /\ UNCHANGED history
    BY <1>1 DEF InspectSchema, ListTables, ListIndexes, InspectIndex, InspectColumns,
       InspectKeys,
                CountRows, Finished, Failed, GoTo, vars
  <2> QED
    BY <2>1 DEF catalog, history, VersionsInv
<1>2. CASE CreateTable \/ InsertRow
  BY <1>2 DEF CreateTable, InsertRow, VersionsInv
<1>3. CASE DropTable \/ DropIndex
  BY <1>3 DEF DropTable, DropIndex, Without, VersionsInv
<1>4. CASE CreateIndex
  <2>1. PICK i \in Indexes, d \in IndexDefs :
          /\ indexes' = Set(indexes, i, d) /\ versions' = [versions EXCEPT ![i] = @ \cup {d}]
    BY <1>4 DEF CreateIndex
  <2>2. d \in IndexShapes
    BY IndexTypes DEF TypeInv
  <2>3. /\ versions' \in [Indexes -> SUBSET IndexShapes]
        /\ \A j \in Indexes : versions[j] \subseteq versions'[j]
    BY <2>1, <2>2 DEF VersionsInv
  <2>4. ASSUME NEW j \in DOMAIN indexes' PROVE indexes'[j] \in versions'[j]
    BY <2>1, <2>3 DEF VersionsInv, Set, TypeInv
  <2> QED
    BY <2>3, <2>4
<1> QED
  BY <1>1, <1>2, <1>3, <1>4 DEF Next

(* So what was true of an entry stays true while its table is in work. *)
LEMMA EntriesStep ==
  ASSUME TypeInv, VersionsInv, [Next]_vars, todo' = todo, NEW e, WasListed(e)
  PROVE  WasListed(e)' /\ (WasNamed(e) => WasNamed(e)')
<1>1. \A i \in Indexes : versions[i] \subseteq versions'[i]
  BY VersionsStep
<1>2. Table' = Table
  BY DEF Table
<1> QED
  BY <1>1, <1>2 DEF WasListed, WasNamed

LEMMA CollectedStep ==
  ASSUME TypeInv, VersionsInv, [Next]_vars
  PROVE  VersionsInv'
<1> DEFINE Collected ==
      /\ pc \in {"list", "index_list", "done"} => pending = {} /\ found = {}
      /\ pc \in {"list", "index_list", "index_info"} => columns = {}
      /\ \A e \in pending : WasListed(e)
      /\ \A e \in found : WasListed(e) /\ WasNamed(e)
      /\ \A c \in columns : c.unique => c.column \in UniqueColumns
<1>0. Collected
  BY DEF VersionsInv
<1>1. CASE ListTables
  <2>1. /\ pending' = {} /\ found' = {} /\ columns' = {}
    BY <1>0, <1>1 DEF ListTables, work
  <2> QED
    BY <2>1, VersionsStep DEF VersionsInv
<1>2. CASE ListIndexes
  <2>1. /\ found' = {} /\ columns' = {} /\ todo' = todo /\ pc' = "index_info"
        /\ pending' = {[name |-> i, unique |-> indexes[i].unique] : i \in IndexesOf(Table)}
    BY <1>0, <1>2 DEF ListIndexes, GoTo
  <2>2. \A e \in pending' : WasListed(e)
    <3> SUFFICES ASSUME NEW i \in IndexesOf(Table)
                 PROVE  WasListed([name |-> i, unique |-> indexes[i].unique])
      BY <2>1
    <3>1. i \in Indexes /\ indexes[i].table = Table /\ indexes[i] \in versions[i]
      BY DEF IndexesOf, VersionsInv, TypeInv
    <3> QED
      BY <3>1 DEF WasListed
  <2>3. \A e \in pending' : WasListed(e)'
    BY <2>1, <2>2, EntriesStep
  <2> QED
    BY <2>1, <2>3, VersionsStep DEF VersionsInv
<1>3. CASE InspectIndex
  <2>1. PICK entry \in pending :
          /\ pending' = pending \ {entry}
          /\ found' = found \cup
               {[name |-> entry.name, unique |-> entry.unique,
                 columns |-> IF entry.name \in DOMAIN indexes
                             THEN Named(indexes[entry.name].terms) ELSE <<>>]}
    BY <1>3 DEF InspectIndex
  <2>2. todo' = todo /\ columns' = columns /\ pc = "index_info" /\ pc' = pc
    BY <1>3 DEF InspectIndex, GoTo
  <2> DEFINE new == [name |-> entry.name, unique |-> entry.unique,
                     columns |-> IF entry.name \in DOMAIN indexes
                                 THEN Named(indexes[entry.name].terms) ELSE <<>>]
  <2>3. WasListed(entry)
    BY <1>0
  <2>4. WasListed(new)
    BY <2>3 DEF WasListed
  <2>5. WasNamed(new)
    <3>1. CASE entry.name \in DOMAIN indexes
      <4>1. indexes[entry.name] \in versions[entry.name]
        BY <3>1 DEF VersionsInv
      <4>2. new.columns = Named(indexes[entry.name].terms) /\ new.name = entry.name
        BY <3>1
      <4> HIDE DEF new
      <4> QED
        BY <4>1, <4>2 DEF WasNamed
    <3>2. CASE entry.name \notin DOMAIN indexes
      BY <3>2 DEF WasNamed
    <3> QED
      BY <3>1, <3>2
  <2> HIDE DEF new
  <2>6. \A e \in found' : WasListed(e) /\ WasNamed(e)
    BY <1>0, <2>1, <2>4, <2>5 DEF new
  <2>7. \A e \in found' : WasListed(e)' /\ WasNamed(e)'
    BY <2>2, <2>6, EntriesStep
  <2>8. \A e \in pending' : WasListed(e)'
    BY <1>0, <2>1, <2>2, EntriesStep
  <2>9. columns' = {}
    BY <1>0, <2>2
  <2> QED
    BY <2>2, <2>7, <2>8, <2>9, VersionsStep DEF VersionsInv
<1>4. CASE InspectColumns
  <2>1. /\ pending' = pending /\ found' = found /\ todo' = todo /\ pc' = "foreign_key_list"
        /\ columns' = {[column |-> c, unique |-> c \in UniqueColumns] :
                         c \in IF Exists THEN tables[Table].columns ELSE {}}
    BY <1>4 DEF InspectColumns, GoTo
  <2>2. UniqueColumns' = UniqueColumns
    BY <2>1 DEF UniqueColumns
  <2>3. \A c \in columns' : c.unique => c.column \in UniqueColumns'
    <3> SUFFICES ASSUME NEW c, [column |-> c, unique |-> c \in UniqueColumns].unique
                 PROVE  [column |-> c, unique |-> c \in UniqueColumns].column \in UniqueColumns
      BY <2>1, <2>2
    <3> QED
      OBVIOUS
  <2>4. /\ \A e \in pending' : WasListed(e)'
        /\ \A e \in found' : WasListed(e)' /\ WasNamed(e)'
    BY <1>0, <2>1, EntriesStep
  <2> QED
    BY <2>1, <2>3, <2>4, VersionsStep DEF VersionsInv
<1>5. ASSUME UNCHANGED <<pending, found, columns, todo>>,
             pc' \in {"list", "index_list", "done"} => pc' = pc,
             pc' \in {"list", "index_list", "index_info"} => pc' = pc
      PROVE  VersionsInv'
  <2>1. UniqueColumns' = UniqueColumns
    BY <1>5 DEF UniqueColumns
  <2>2. /\ \A e \in pending' : WasListed(e)'
        /\ \A e \in found' : WasListed(e)' /\ WasNamed(e)'
    BY <1>0, <1>5, EntriesStep
  <2> QED
    BY <1>0, <1>5, <2>1, <2>2, VersionsStep DEF VersionsInv
<1>6. CASE InspectKeys
  BY <1>5, <1>6 DEF InspectKeys, GoTo
<1>7. CASE CountRows
  <2>1. CASE Exists
    <3>1. pending' = {} /\ found' = {} /\ columns' = {}
      BY <1>7, <2>1 DEF CountRows, Finished
    <3> QED
      BY <3>1, VersionsStep DEF VersionsInv
  <2>2. CASE ~ Exists
    BY <1>5, <1>7, <2>2 DEF CountRows, Failed, GoTo, work
  <2> QED
    BY <2>1, <2>2
<1>8. CASE CreateTable \/ DropTable \/ CreateIndex \/ DropIndex \/ InsertRow \/ UNCHANGED vars
  BY <1>5, <1>8 DEF CreateTable, DropTable, CreateIndex, DropIndex, InsertRow, Commit,
     vars, work
<1> QED
  BY <1>1, <1>2, <1>3, <1>4, <1>6, <1>7, <1>8 DEF Next, InspectSchema

(* A column is called unique for an index that was so, or whose name came  *)
(* to stand for another one.                                               *)
Explained(d) ==
  \A c \in d.columns : c.unique =>
    \E i \in Indexes :
      \/ \E v \in versions[i] : v.table = d.table /\ v.unique /\ Named(v.terms) = <<c.column>>
      \/ /\ \E v, w \in versions[i] : v # w /\ v.table = d.table /\ v.unique
         /\ \E e \in d.indexes : e.name = i /\ e.columns = <<c.column>>

LEMMA UniqueStep ==
  ASSUME TypeInv, VersionsInv, UniqueWasSo, [Next]_vars
  PROVE  UniqueWasSo'
<1>1. \A d \in schema : Explained(d)
  BY DEF UniqueWasSo, Explained
<1>2. ASSUME NEW d, Explained(d) PROVE Explained(d)'
  BY <1>2, VersionsStep DEF Explained
<1>3. ASSUME \A d \in schema' : Explained(d) PROVE UniqueWasSo'
  BY <1>2, <1>3 DEF UniqueWasSo, Explained
<1>4. CASE CountRows /\ Exists
  <2> DEFINE new == [table |-> Table, columns |-> columns, keys |-> keys, indexes |-> found,
                     rows |-> tables[Table].rows]
  <2>1. schema' = schema \cup {new}
    BY <1>4 DEF CountRows, Finished
  <2>2. new.table = Table /\ new.columns = columns /\ new.indexes = found
    OBVIOUS
  <2> HIDE DEF new
  <2>3. ASSUME NEW c \in columns, c.unique
        PROVE  \E i \in Indexes :
                 \/ \E v \in versions[i] : v.table = Table /\ v.unique /\ Named(v.terms) = <<c.column>>
                 \/ /\ \E v, w \in versions[i] : v # w /\ v.table = Table /\ v.unique
                    /\ \E e \in found : e.name = i /\ e.columns = <<c.column>>
    <3>1. PICK e \in found : e.unique /\ Len(e.columns) = 1 /\ e.columns[1] = c.column
      BY <2>3 DEF VersionsInv, UniqueColumns
    <3>2. /\ e.name \in Indexes
          /\ e.columns = <<>> \/ \E w \in versions[e.name] : e.columns = Named(w.terms)
      BY DEF VersionsInv, WasListed, WasNamed
    <3>3. PICK v \in versions[e.name] : v.table = Table /\ v.unique = e.unique
      BY DEF VersionsInv, WasListed
    <3>4. PICK w \in versions[e.name] : e.columns = Named(w.terms)
      <4>1. e.columns # <<>>
        BY <3>1
      <4> QED
        BY <3>2, <4>1
    <3>5. w.terms \in Seq(Nat)
      <4>1. w.terms \in Terms
        BY <3>2 DEF VersionsInv, IndexShapes
      <4> QED
        BY <4>1, TermsTypes
    <3>6. e.columns = <<c.column>>
      BY <3>1, <3>4, <3>5, NamedOne
    <3>7. CASE v = w
      BY <3>1, <3>2, <3>3, <3>4, <3>6, <3>7
    <3>8. CASE v # w
      BY <3>1, <3>2, <3>3, <3>6, <3>8
    <3> QED
      BY <3>7, <3>8
  <2>4. Explained(new)
    BY <2>2, <2>3 DEF Explained
  <2> QED
    BY <1>1, <1>3, <2>1, <2>4
<1>5. CASE ~ (CountRows /\ Exists)
  <2>1. schema' = schema \/ ListTables
    BY <1>5 DEF Next, InspectSchema, ListIndexes, InspectIndex, InspectColumns, InspectKeys,
                CountRows, Failed, CreateTable, DropTable, CreateIndex, DropIndex, InsertRow, Commit, vars
  <2>2. schema' = schema
    BY <2>1 DEF ListTables
  <2> QED
    BY <1>1, <1>3, <2>2
<1> QED
  BY <1>4, <1>5
(* With every index of a table looked at, the columns called unique are    *)
(* the ones that are.                                                      *)
LEMMA UniqueTrue ==
  ASSUME TypeInv, NEW t, found = {Looked(i) : i \in IndexesOf(t)}, NEW c \in Nat \ {0}
  PROVE  c \in UniqueColumns <=> \E i \in IndexesOf(t) : indexes[i].unique /\ NamesOnly(i, c)
<1>1. ASSUME NEW i \in IndexesOf(t)
      PROVE  /\ Looked(i).unique = indexes[i].unique
             /\ Looked(i).columns = Named(indexes[i].terms)
  BY DEF Looked
<1>2. ASSUME NEW i \in IndexesOf(t)
      PROVE  Len(Named(indexes[i].terms)) = 1 /\ Named(indexes[i].terms)[1] = c <=> NamesOnly(i, c)
  <2>1. indexes[i].terms \in Seq(Nat)
    BY TermsTypes DEF IndexesOf, TypeInv, IndexShapes
  <2> QED
    BY <2>1, NamedOne DEF NamesOnly, Expression
<1>3. c \in UniqueColumns <=> \E e \in found : e.unique /\ Len(e.columns) = 1 /\ e.columns[1] = c
  BY DEF UniqueColumns
<1>4. (\E e \in found : e.unique /\ Len(e.columns) = 1 /\ e.columns[1] = c)
      <=> \E i \in IndexesOf(t) :
            Looked(i).unique /\ Len(Looked(i).columns) = 1 /\ Looked(i).columns[1] = c
  OBVIOUS
<1> QED
  BY <1>1, <1>2, <1>3, <1>4

LEMMA TruthStep ==
  ASSUME TypeInv, ProgressInv, VersionsInv, TruthInv, [Next]_vars
  PROVE  TruthInv'
<1>1. CASE ListTables
  BY <1>1 DEF ListTables, GoTo, TruthInv
<1>2. CASE ListIndexes
  <2>1. /\ pc' = "index_info" /\ UNCHANGED <<tables, indexes, todo, found>> /\ found = {}
        /\ pending' = {[name |-> i, unique |-> indexes[i].unique] : i \in IndexesOf(Table)}
    BY <1>2 DEF ListIndexes, GoTo, catalog, VersionsInv
  <2>2. UNCHANGED <<Table, IndexesOf(Table)>> /\ \A i : UNCHANGED <<Entry(i), Looked(i)>>
    BY <2>1 DEF Table, IndexesOf, Entry, Looked
  <2>3. pending' = {Entry(i) : i \in IndexesOf(Table)}
    BY <2>1 DEF Entry
  <2>4. {j \in IndexesOf(Table) : Entry(j) \notin pending'} = {}
    BY <2>3
  <2>5. found' = {Looked(i) : i \in {j \in IndexesOf(Table) : Entry(j) \notin pending'}}
    BY <2>1, <2>4
  <2> QED
    BY <2>1, <2>2, <2>3, <2>5 DEF TruthInv
<1>3. CASE InspectIndex
  <2>1. PICK entry \in pending :
          /\ pending' = pending \ {entry}
          /\ found' = found \cup
               {[name |-> entry.name, unique |-> entry.unique,
                 columns |-> IF entry.name \in DOMAIN indexes
                             THEN Named(indexes[entry.name].terms) ELSE <<>>]}
    BY <1>3 DEF InspectIndex
  <2>2. pc = "index_info" /\ pc' = pc /\ UNCHANGED <<tables, indexes, todo, since, commits>>
    BY <1>3 DEF InspectIndex, GoTo, catalog, history
  <2>3. UNCHANGED <<Table, IndexesOf(Table)>> /\ \A i : UNCHANGED <<Entry(i), Looked(i)>>
    BY <2>2 DEF Table, IndexesOf, Entry, Looked
  <2>4. ASSUME since = commits
        PROVE  /\ pending' \subseteq {Entry(i) : i \in IndexesOf(Table)}
               /\ found' = {Looked(i) : i \in {j \in IndexesOf(Table) : Entry(j) \notin pending'}}
    <3>1. /\ pending \subseteq {Entry(i) : i \in IndexesOf(Table)}
          /\ found = {Looked(i) : i \in {j \in IndexesOf(Table) : Entry(j) \notin pending}}
      BY <2>2, <2>4 DEF TruthInv
    <3>2. PICK k \in IndexesOf(Table) : entry = Entry(k)
      BY <3>1
    <3>3. k \in DOMAIN indexes /\ entry.name = k /\ entry.unique = indexes[k].unique
      BY <3>2 DEF Entry, IndexesOf
    <3>4. found' = found \cup {Looked(k)}
      BY <2>1, <3>3 DEF Looked
    <3>5. \A j \in IndexesOf(Table) : Entry(j) = entry => j = k
      BY <3>2 DEF Entry
    <3>6. {j \in IndexesOf(Table) : Entry(j) \notin pending'}
            = {j \in IndexesOf(Table) : Entry(j) \notin pending} \cup {k}
      BY <2>1, <3>2, <3>5
    <3>7. pending' \subseteq {Entry(i) : i \in IndexesOf(Table)}
      BY <2>1, <3>1
    <3> QED
      BY <3>1, <3>4, <3>6, <3>7
  <2> QED
    BY <2>2, <2>3, <2>4 DEF TruthInv
<1>4. CASE InspectColumns
  <2>1. /\ pc = "index_info" /\ pending = {} /\ pc' = "foreign_key_list"
        /\ UNCHANGED <<tables, indexes, todo, since, commits, found>>
        /\ columns' = {[column |-> c, unique |-> c \in UniqueColumns] :
                         c \in IF Exists THEN tables[Table].columns ELSE {}}
    BY <1>4 DEF InspectColumns, GoTo, catalog, history
  <2>2. UNCHANGED <<Table, Exists, Description(Table)>>
    BY <2>1 DEF Table, Exists, Description, IndexesOf, NamesOnly
  <2>3. ASSUME since = commits, Exists
        PROVE  /\ found = Description(Table).indexes
               /\ columns' = Description(Table).columns
    <3>1. found = {Looked(i) : i \in IndexesOf(Table)}
      BY <2>1, <2>3 DEF TruthInv
    <3>2. found = Description(Table).indexes
      BY <3>1 DEF Description, Looked
    <3>3. tables[Table].columns \subseteq Nat \ {0}
      BY <2>3 DEF Exists, TypeInv, TableShapes
    <3>4. \A c \in tables[Table].columns :
            c \in UniqueColumns <=> \E i \in IndexesOf(Table) : indexes[i].unique /\ NamesOnly(i, c)
      BY <3>1, <3>3, UniqueTrue
    <3>5. columns' = {[column |-> c, unique |-> c \in UniqueColumns] : c \in tables[Table].columns}
      BY <2>1, <2>3
    <3>6. Description(Table).columns =
            {[column |-> c, unique |-> \E i \in IndexesOf(Table) : indexes[i].unique /\ NamesOnly(i, c)] :
               c \in tables[Table].columns}
      BY DEF Description
    <3>7. columns' = Description(Table).columns
      <4> DEFINE Flagged(c) == [column |-> c, unique |-> c \in UniqueColumns]
                 True(c) == [column |-> c, unique |->
                               \E i \in IndexesOf(Table) : indexes[i].unique /\ NamesOnly(i, c)]
      <4>1. \A c \in tables[Table].columns : Flagged(c) = True(c)
        <5> SUFFICES ASSUME NEW c \in tables[Table].columns PROVE Flagged(c) = True(c)
          OBVIOUS
        <5> DEFINE U == c \in UniqueColumns
                   N == \E i \in IndexesOf(Table) : indexes[i].unique /\ NamesOnly(i, c)
        <5>1. U <=> N
          BY <3>4
        <5>2. U \in BOOLEAN /\ N \in BOOLEAN
          OBVIOUS
        <5>3. Flagged(c) = [column |-> c, unique |-> U] /\ True(c) = [column |-> c, unique |-> N]
          BY Zenon
        <5> HIDE DEF U, N, Flagged, True
        <5>4. U = N
          BY <5>1, <5>2
        <5> QED
          BY <5>3, <5>4
      <4>2. columns' = {Flagged(c) : c \in tables[Table].columns}
        BY <3>5, Zenon
      <4>3. Description(Table).columns = {True(c) : c \in tables[Table].columns}
        BY <3>6, Zenon
      <4> HIDE DEF Flagged, True
      <4> QED
        BY <4>1, <4>2, <4>3
    <3> QED
      BY <3>2, <3>7
  <2> QED
    BY <2>1, <2>2, <2>3 DEF TruthInv
<1>5. CASE InspectKeys
  <2>1. /\ pc = "foreign_key_list" /\ pc' = "count"
        /\ UNCHANGED <<tables, indexes, todo, since, commits, found, columns>>
        /\ keys' = Grouped(IF Exists THEN KeyRows(Table) ELSE {})
    BY <1>5 DEF InspectKeys, GoTo, catalog, history
  <2>2. UNCHANGED <<Table, Exists, Description(Table)>>
    BY <2>1 DEF Table, Exists, Description, IndexesOf, NamesOnly
  <2>3. ASSUME Exists PROVE keys' = tables[Table].keys
    <3>1. Table \in DOMAIN tables /\ tables[Table].keys \in {d.keys : d \in TableDefs}
      BY <2>3 DEF Exists, TypeInv, TableShapes
    <3>2. keys' = Grouped(KeyRows(Table))
      BY <2>1, <2>3
    <3> QED
      BY <3>1, <3>2, KeysGrouped
  <2> QED
    BY <2>1, <2>2, <2>3 DEF TruthInv
<1>6. CASE CountRows
  <2>1. pc' \in {"done", "index_list", "failed"}
    BY <1>6 DEF CountRows, Finished, Failed, GoTo
  <2> QED
    BY <2>1 DEF TruthInv
<1>7. CASE CreateTable \/ DropTable \/ CreateIndex \/ DropIndex \/ InsertRow
  <2>1. since' # commits'
    BY <1>7 DEF CreateTable, DropTable, CreateIndex, DropIndex, InsertRow, Commit, TypeInv
  <2> QED
    BY <2>1 DEF TruthInv
<1>8. CASE UNCHANGED vars
  <2>1. UNCHANGED <<Table, Exists, Description(Table), IndexesOf(Table)>>
        /\ \A i : UNCHANGED <<Entry(i), Looked(i)>>
    BY <1>8 DEF vars, catalog, Table, Exists, Description, IndexesOf, NamesOnly, Entry, Looked
  <2> QED
    BY <1>8, <2>1 DEF vars, catalog, work, history, TruthInv
<1> QED
  BY <1>1, <1>2, <1>3, <1>4, <1>5, <1>6, <1>7, <1>8 DEF Next, InspectSchema

LEMMA CatalogHolds == Spec => []CatalogInv
<1>1. CatalogInv /\ [Next]_vars => CatalogInv'
  BY TypeStep, ProgressStep, CollectedStep, UniqueStep, TruthStep DEF CatalogInv
<1> QED
  BY <1>1, InitCatalog, PTL DEF Spec

-----------------------------------------------------------------------------
(* NoneForgotten, of inspect_schema: every table that was there all the    *)
(* time is described, each once, and the call fails only for a table that  *)
(* was dropped after it was listed; for any tables and any commits.        *)
THEOREM NoTableForgotten == Spec => []NoneForgotten
<1>1. CatalogInv => NoneForgotten
  <2> SUFFICES ASSUME CatalogInv PROVE NoneForgotten
    OBVIOUS
  <2>1. ASSUME pc = "done", NEW t \in Tables \ dropped PROVE \E d \in schema : d.table = t
    BY <2>1 DEF CatalogInv, ProgressInv, Described
  <2> QED
    BY <2>1 DEF CatalogInv, ProgressInv, NoneForgotten
<1> QED
  BY <1>1, CatalogHolds, PTL

(* UniqueWasSo, of unique_columns: a column is called unique only for a    *)
(* UNIQUE index of its table that names no other, or for an index whose    *)
(* name was reused while the call looked.                                  *)
THEOREM UniqueHasCause == Spec => []UniqueWasSo
<1>1. CatalogInv => UniqueWasSo
  BY DEF CatalogInv
<1> QED
  BY <1>1, CatalogHolds, PTL

(* UndisturbedTrue, of the queries about one table: without a commit       *)
(* between them, columns, unique flags, keys, indexes and rows are those   *)
(* of the catalog, whatever was committed before and after.                *)
THEOREM DescriptionsAreTrue == Spec => UndisturbedTrue
<1>1. ASSUME CatalogInv, Next, schema' # schema, since = commits
      PROVE  schema' = schema \cup {Description(Table)}
  <2>1. CountRows /\ Exists /\ Finished
    BY <1>1 DEF Next, InspectSchema, ListTables, ListIndexes, InspectIndex,
       InspectColumns, InspectKeys,
                CountRows, Failed, CreateTable, DropTable, CreateIndex, DropIndex, InsertRow, Commit
  <2>2. /\ found = Description(Table).indexes /\ columns = Description(Table).columns
        /\ keys = tables[Table].keys
    BY <1>1, <2>1 DEF CountRows, CatalogInv, TruthInv
  <2>3. Description(Table) = [table |-> Table, columns |-> columns, keys |-> keys, indexes |-> found,
                              rows |-> tables[Table].rows]
    BY <2>2 DEF Description
  <2> QED
    BY <2>1, <2>3 DEF Finished
<1>2. CatalogInv /\ [Next]_vars
      => [schema' # schema /\ since = commits => schema' = schema \cup {Description(Table)}]_vars
  BY <1>1 DEF vars
<1> QED
  BY <1>2, CatalogHolds, PTL DEF Spec, UndisturbedTrue
=============================================================================
