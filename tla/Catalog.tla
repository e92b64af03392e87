------------------------------ MODULE Catalog ------------------------------
(***************************************************************************)
(* Connection::inspect_schema on a local database: adapter/sqlite/mod.rs.  *)
(* The description is put together from several catalog queries, each a    *)
(* statement of its own outside a transaction, while other connections     *)
(* change the schema and the rows.                                         *)
(*                                                                         *)
(* Tables and columns are numbers; tables are listed in their order.  An   *)
(* index is a name, which a later index may get again; its terms are       *)
(* columns or an expression, which has no name.                            *)
(***************************************************************************)
EXTENDS Integers, Sequences, FiniteSets

CONSTANTS
  Tables,
  Indexes,    \* index names
  MaxCommits  \* bound: commits of other connections during the call

ASSUME CatalogAssumption == Tables \subseteq Nat \ {0} /\ MaxCommits \in Nat

VARIABLES
  tables,   \* existing tables -> their columns, foreign keys and rows
  indexes,  \* existing indexes -> their table, terms and whether UNIQUE
  pc,       \* the query that comes next, "done" or "failed"
  todo,     \* tables listed and not yet described; the least is in work
  pending,  \* of that: indexes listed and not yet looked at,
  found,    \* those looked at, with their columns,
  columns,  \* its columns, each with its unique flag,
  keys,     \* and its foreign keys
  schema,   \* descriptions finished so far
  commits,  \* commits of other connections so far
  since,    \* how many of them there were when the work on the table began
  versions, \* what each index name has stood for during the call
  dropped   \* tables dropped during the call

catalog == <<tables, indexes>>
work == <<pending, found, columns, keys>>
history == <<commits, versions, dropped>>
vars == <<catalog, pc, todo, work, schema, since, history>>

Expression == 0

(* The tables of the model: a column; and two, with a foreign key over     *)
(* both in the other order and a second key.                               *)
TableDefs ==
  {[columns |-> {1}, keys |-> <<>>, rows |-> 0],
   [columns |-> {1, 2}, keys |-> <<<<2, 1>>, <<1>>>>, rows |-> 0]}

(* The indexes: a plain one, and UNIQUE ones of one column, of two, and of *)
(* an expression and a column.                                             *)
Terms == {<<1>>, <<2, 1>>, <<Expression, 1>>}
IndexDefs ==
  [table : DOMAIN tables, terms : Terms, unique : {TRUE}] \cup
  [table : DOMAIN tables, terms : {<<1>>}, unique : {FALSE}]
Possible(d) == \A i \in DOMAIN d.terms : d.terms[i] \in tables[d.table].columns \cup {Expression}

IndexesOf(t) == {i \in DOMAIN indexes : indexes[i].table = t}
Table == CHOOSE t \in todo : \A u \in todo : t <= u
Exists == Table \in DOMAIN tables

-----------------------------------------------------------------------------
Init ==
  /\ tables \in [Tables -> TableDefs]
  /\ indexes \in UNION {[some -> {d \in IndexDefs : Possible(d)}] : some \in SUBSET Indexes}
  /\ pc = "list"
  /\ todo = {} /\ pending = {} /\ found = {} /\ columns = {} /\ keys = <<>>
  /\ schema = {}
  /\ commits = 0 /\ since = 0 /\ dropped = {}
  /\ versions = [i \in Indexes |-> IF i \in DOMAIN indexes THEN {indexes[i]} ELSE {}]

GoTo(query) == pc' = query /\ UNCHANGED <<catalog, history>>

(* sqlite_schema, ORDER BY name: the least table comes first. *)
ListTables ==
  /\ pc = "list"
  /\ todo' = DOMAIN tables
  /\ GoTo(IF DOMAIN tables = {} THEN "done" ELSE "index_list")
  /\ UNCHANGED <<work, schema, since>>

(* PRAGMA index_list: nothing for a table that is gone. *)
ListIndexes ==
  /\ pc = "index_list"
  /\ pending' = {[name |-> i, unique |-> indexes[i].unique] : i \in IndexesOf(Table)}
  /\ since' = commits
  /\ GoTo("index_info") /\ UNCHANGED <<todo, found, columns, keys, schema>>

(* A set in order: the k-th element has k - 1 of them before it. *)
Ordered(S, Before(_, _)) ==
  [k \in 1..Cardinality(S) |->
     CHOOSE x \in S : Cardinality({y \in S : Before(y, x)}) = k - 1]

(* filter_map: a term without a name is left out. *)
Named(terms) ==
  LET places == Ordered({j \in DOMAIN terms : terms[j] # Expression}, <)
  IN [k \in DOMAIN places |-> terms[places[k]]]

(* PRAGMA index_info: whatever has that name by now, if anything. *)
InspectIndex ==
  /\ pc = "index_info"
  /\ \E entry \in pending :
       /\ pending' = pending \ {entry}
       /\ found' = found \cup
            {[name |-> entry.name, unique |-> entry.unique,
              columns |-> IF entry.name \in DOMAIN indexes
                          THEN Named(indexes[entry.name].terms) ELSE <<>>]}
  /\ GoTo(pc) /\ UNCHANGED <<todo, columns, keys, schema, since>>

UniqueColumnsAny == {e.columns[1] : e \in {f \in found : f.unique /\ f.columns # <<>>}}

(* A UNIQUE index with one named column makes that column unique. *)
UniqueColumns == {e.columns[1] : e \in {f \in found : f.unique /\ Len(f.columns) = 1}}

(* PRAGMA table_info. *)
InspectColumns ==
  /\ pc = "index_info" /\ pending = {}
  /\ columns' = {[column |-> c, unique |-> c \in UniqueColumns] :
                   c \in IF Exists THEN tables[Table].columns ELSE {}}
  /\ GoTo("foreign_key_list") /\ UNCHANGED <<todo, pending, found, keys, schema, since>>

(* The rows of PRAGMA foreign_key_list: one per column of a key. *)
KeyRows(t) ==
  UNION {{[id |-> i, seq |-> j, column |-> tables[t].keys[i][j]] :
            j \in DOMAIN tables[t].keys[i]} : i \in DOMAIN tables[t].keys}

ByColumn(r, s) == r.column < s.column
BySequence(r, s) == r.seq < s.seq

(* Grouped by id, the columns of a key in the order of seq. *)
Grouped(rows) ==
  [id \in {r.id : r \in rows} |->
     LET key == Ordered({r \in rows : r.id = id}, BySequence)
     IN [j \in DOMAIN key |-> key[j].column]]

InspectKeys ==
  /\ pc = "foreign_key_list"
  /\ keys' = Grouped(IF Exists THEN KeyRows(Table) ELSE {})
  /\ GoTo("count") /\ UNCHANGED <<todo, pending, found, columns, schema, since>>

Finished ==
  /\ schema' = schema \cup
       {[table |-> Table, columns |-> columns, keys |-> keys, indexes |-> found,
         rows |-> tables[Table].rows]}
  /\ todo' = todo \ {Table}
  /\ pending' = {} /\ found' = {} /\ columns' = {} /\ keys' = <<>>
  /\ GoTo(IF todo' = {} THEN "done" ELSE "index_list")

Failed == GoTo("failed") /\ UNCHANGED <<schema, todo, work>>

CountRowsNotEmpty ==
  /\ pc = "count"
  /\ IF Exists /\ tables[Table].rows > 0 THEN Finished ELSE Failed
  /\ UNCHANGED since

(* SELECT COUNT: the one query that fails when the table is gone. *)
CountRows ==
  /\ pc = "count"
  /\ IF Exists THEN Finished ELSE Failed
  /\ UNCHANGED since

InspectSchema ==
  ListTables \/ ListIndexes \/ InspectIndex \/ InspectColumns \/ InspectKeys \/ CountRows

-----------------------------------------------------------------------------
(* Commits of other connections while the call runs. *)

Commit ==
  /\ pc \notin {"done", "failed"} /\ commits < MaxCommits
  /\ commits' = commits + 1
  /\ UNCHANGED <<pc, todo, work, schema, since>>

Set(f, x, value) == [y \in DOMAIN f \cup {x} |-> IF y = x THEN value ELSE f[y]]
Without(f, gone) == [y \in DOMAIN f \ gone |-> f[y]]

CreateTable ==
  /\ \E t \in Tables \ DOMAIN tables, d \in TableDefs : tables' = Set(tables, t, d)
  /\ Commit /\ UNCHANGED <<indexes, versions, dropped>>

DropTable ==
  /\ \E t \in DOMAIN tables :
       /\ tables' = Without(tables, {t}) /\ indexes' = Without(indexes, IndexesOf(t))
       /\ dropped' = dropped \cup {t}
  /\ Commit /\ UNCHANGED versions

(* CREATE INDEX, or DROP INDEX and CREATE INDEX in one transaction. *)
CreateIndex ==
  /\ \E i \in Indexes, d \in {e \in IndexDefs : Possible(e)} :
       /\ indexes' = Set(indexes, i, d)
       /\ versions' = [versions EXCEPT ![i] = @ \cup {d}]
  /\ Commit /\ UNCHANGED <<tables, dropped>>

DropIndex ==
  /\ \E i \in DOMAIN indexes : indexes' = Without(indexes, {i})
  /\ Commit /\ UNCHANGED <<tables, versions, dropped>>

InsertRow ==
  /\ \E t \in DOMAIN tables : tables' = [tables EXCEPT ![t].rows = @ + 1]
  /\ Commit /\ UNCHANGED <<indexes, versions, dropped>>

Next ==
  InspectSchema \/ CreateTable \/ DropTable \/ CreateIndex \/ DropIndex \/ InsertRow

Spec == Init /\ [][Next]_vars

-----------------------------------------------------------------------------
(* What there is to say of a table, from the catalog itself.  An index is  *)
(* described by the columns it names, and a column is unique when a UNIQUE *)
(* index names it and no other.                                            *)
NamesOnly(i, c) ==
  LET terms == indexes[i].terms
  IN \E k \in DOMAIN terms : terms[k] = c /\ \A j \in DOMAIN terms \ {k} : terms[j] = Expression

Description(t) ==
  [table |-> t,
   columns |-> {[column |-> c,
                 unique |-> \E i \in IndexesOf(t) : indexes[i].unique /\ NamesOnly(i, c)] :
                  c \in tables[t].columns},
   keys |-> tables[t].keys,
   indexes |-> {[name |-> i, unique |-> indexes[i].unique, columns |-> Named(indexes[i].terms)] :
                  i \in IndexesOf(t)},
   rows |-> tables[t].rows]

(* The description of a table is the truth of one moment whenever nothing  *)
(* was committed between its first query and its last, whatever happened   *)
(* while other tables were described.                                      *)
UndisturbedTrue ==
  [][schema' # schema /\ since = commits => schema' = schema \cup {Description(Table)}]_vars

(* A column of the result is unique only if during the call there was a    *)
(* UNIQUE index of its table that names no other column, or the name of an *)
(* index of the table came to mean another one meanwhile: then the flag of *)
(* one and the columns of the other make an index that never was.          *)
UniqueWasSo ==
  \A d \in schema : \A c \in d.columns : c.unique =>
    \E i \in Indexes :
      \/ \E v \in versions[i] : v.table = d.table /\ v.unique /\ Named(v.terms) = <<c.column>>
      \/ /\ \E v, w \in versions[i] : v # w /\ v.table = d.table /\ v.unique
         /\ \E e \in d.indexes : e.name = i /\ e.columns = <<c.column>>

(* The call describes every table that was there all the time, each once,  *)
(* and fails only if a table was dropped that it had listed.               *)
NoneForgotten ==
  /\ pc = "done" => \A t \in Tables \ dropped : \E d \in schema : d.table = t
  /\ pc = "failed" => dropped \cap todo # {}
  /\ \A d, e \in schema : d.table = e.table => d = e
=============================================================================
