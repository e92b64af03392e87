------------------------------- MODULE Values -------------------------------
(***************************************************************************)
(* The way of one value through the program: a Rust value or a JSON        *)
(* message becomes a Parameter (src/rows.rs), perhaps crosses the wire of  *)
(* a remote route, is bound to a statement and stored in a column, perhaps *)
(* copied by a rebuild (adapter/sqlite/recovery.rs), read back as a JSON   *)
(* cell of a Row, and taken out by a getter.  Every step converts it.      *)
(*                                                                         *)
(* A value is a kind and a number.  Integers are -Top .. Top - 1.  A real  *)
(* is given in halves, a text is a numeral (of a number in halves) or a    *)
(* word, a blob has at most one byte, -1 standing for none.  The spelling  *)
(* of numerals ("2", "2.0") is left out.                                   *)
(***************************************************************************)
EXTENDS Integers, SequencesExt

CONSTANTS
  Top,       \* integers are below this: 2^63 of an i64
  Exact,     \* integers up to this magnitude are reals without rounding
  MaxByte,   \* largest byte of a blob
  Columns,   \* names a query may give its columns: numbers, in their order
  MaxCopies  \* bound: rebuilds of the database the value is in

ASSUME ValuesAssumption ==
  /\ Top \in Nat /\ Top >= 2 /\ Exact \in Nat /\ MaxByte \in Nat
  /\ Columns \subseteq Int /\ MaxCopies \in Nat

VARIABLES
  origin,   \* the value the caller, or another program, gave
  hop,      \* what it is now
  value,    \* its form there
  affinity, \* of the column it is stored in
  copies,   \* rebuilds it went through
  route,    \* of the caller's connection
  row       \* the Row it is read in

vars == <<origin, hop, value, affinity, copies, route, row>>

-----------------------------------------------------------------------------
(* Numbers *)

Modulus == 2 * Top
Fits(n) == n \in -Top .. Top - 1

(* `as i64`. *)
Wrap(n) == IF n >= Top THEN n - Modulus ELSE n

(* The nearest double, ties downwards: beyond Exact only even integers. *)
Rounded(n) == IF n \in -Exact .. Exact THEN n ELSE 2 * (n \div 2)

V(kind, number) == [kind |-> kind, number |-> number]
Nothing == V("null", 0)
Truth(b) == V("bool", IF b THEN 1 ELSE 0)
Error == V("error", 0)

Halves == {2 * n : n \in {Rounded(m) : m \in -Top .. Top}} \cup {-1, 1}

(* The double a JSON number is parsed as: serde_json, built without its    *)
(* feature float_roundtrip, may miss by one a double with many digits.     *)
Parsed(v) ==
  IF v.kind = "real" /\ v.number % 2 = 1
  THEN {V("real", v.number + d) : d \in {-2, 0, 2}} ELSE {v}
Bytes == -1 .. MaxByte

(* What a caller can pass.  An "unsigned" is a usize, or a JSON integer    *)
(* that is not negative.                                                   *)
Numbers ==
  {V("integer", n) : n \in -Top .. Top - 1} \cup {V("real", h) : h \in Halves}
Given ==
  {Nothing, V("nan", 0), V("infinite", 0), V("word", 0)} \cup {Truth(b) : b \in BOOLEAN}
    \cup Numbers \cup {V("unsigned", n) : n \in 0 .. Modulus - 1}
    \cup {V("numeral", h) : h \in Halves} \cup {V("blob", b) : b \in Bytes}

(* JSON of another program: besides these, objects and arrays that are not *)
(* of bytes.                                                               *)
Foreign == {V("object", 0), V("blob", MaxByte + 1)}

(* What another program may have stored: text that is not UTF-8. *)
Planted == {V("bytes", 0)}

-----------------------------------------------------------------------------
(* src/rows.rs: From and Deserialize for Parameter *)

ToParameter(v) ==
  CASE v.kind = "unsigned" -> V("integer", Wrap(v.number))
    [] v.kind = "object" \/ (v.kind = "blob" /\ v.number > MaxByte) -> Error
    [] OTHER -> v

(* Serialize for Parameter: JSON has no NaN or infinity.                   *)
ToJson(p) ==
  CASE p.kind \in {"nan", "infinite"} -> Nothing
    [] p.kind = "integer" /\ p.number >= 0 -> V("unsigned", p.number)
    [] OTHER -> p

(* check_parameters of the Supabase adapter. *)
CheckNothing(p) == TRUE
CheckParameters(p) == p.kind \notin {"nan", "infinite"}

-----------------------------------------------------------------------------
(* SQLite: what binding stores in a column of an affinity *)

Affinities == {"none", "text", "numeric", "real"}

AsInteger(v) ==
  IF v.number % 2 = 0 /\ Fits(v.number \div 2) THEN V("integer", v.number \div 2)
                                               ELSE V("real", v.number)
Stored(v, column) ==
  CASE column = "text" /\ v.kind = "integer"  -> V("numeral", 2 * v.number)
    [] column = "text" /\ v.kind = "real"     -> V("numeral", v.number)
    [] column = "text" /\ v.kind = "infinite" -> V("word", 0)
    [] column = "numeric" /\ v.kind \in {"real", "numeral"} -> AsInteger(v)
    [] column = "real" /\ v.kind = "integer"  -> V("real", 2 * Rounded(v.number))
    [] column = "real" /\ v.kind = "numeral"  -> V("real", v.number)
    [] OTHER -> v

(* bind_all: booleans are integers; SQLite makes NULL of NaN. *)
Bound(p) ==
  CASE p.kind = "bool" -> V("integer", p.number)
    [] p.kind = "nan" -> Nothing
    [] OTHER -> p

(* Statement::value: the cells a stored value can be read as.  For an      *)
(* empty blob SQLite returns a null pointer, of which a slice is made:     *)
(* undefined behaviour, an abort in a build that checks.                   *)
Cells(s) ==
  CASE s.kind \in {"infinite", "bytes"} -> {Error}
    [] s = V("blob", -1) -> {s, V("abort", 0)}
    [] OTHER -> {s}

RestoredAsReal(cell) ==
  IF cell.kind = "integer" THEN V("real", 2 * Rounded(cell.number)) ELSE cell

(* parameter_from_value: what the rebuild binds again.  A Number that is   *)
(* an i64 is an integer, and a byte is a byte.                             *)
Restored(cell) ==
  IF cell.kind = "blob" /\ cell.number > MaxByte THEN Error ELSE cell

-----------------------------------------------------------------------------
(* Row: getters and lookup *)

GetBoolStrict(c) == IF c.kind = "bool" THEN c ELSE Error
GetBool(c) ==
  IF c.kind = "bool" \/ (c.kind = "integer" /\ c.number \in {0, 1})
  THEN V("bool", c.number) ELSE Error
GetIntTruncating(c) ==
  CASE c.kind = "integer" -> c
    [] c.kind = "real" -> V("integer", c.number \div 2)
    [] OTHER -> Error
GetInt(c) == IF c.kind = "integer" THEN c ELSE Error
GetReal(c) ==
  CASE c.kind = "real" -> c
    [] c.kind = "integer" -> V("real", 2 * Rounded(c.number))
    [] OTHER -> Error
GetText(c) == IF c.kind \in {"numeral", "word"} THEN c ELSE Error
GetBlob(c) == IF c.kind = "blob" /\ c.number <= MaxByte THEN c ELSE Error
IsNull(c) == c.kind = "null"

LastPosition(columns, name) ==
  CHOOSE i \in DOMAIN columns :
    columns[i] = name /\ \A j \in i + 1 .. Len(columns) : columns[j] # name

(* RowIndex of a name: the first column that has it. *)
Position(columns, name) ==
  CHOOSE i \in DOMAIN columns : columns[i] = name /\ \A j \in 1 .. i - 1 : columns[j] # name

Distinct(names) == \A i, j \in DOMAIN names : names[i] = names[j] => i = j

(* A service's row is a JSON object: the last of two equal names is kept. *)
Object(names, cells) ==
  [name \in ToSet(names) |-> cells[LastPosition(names, name)]]

InOrder(S) ==
  CHOOSE s \in [1 .. Cardinality(S) -> S] : \A i, j \in DOMAIN s : i < j => s[i] < s[j]

(* rows_from_response: the listed columns, or those of the object, which   *)
(* serde_json has in their own order.                                      *)
ObjectRow(object, listed) ==
  LET columns == IF listed # <<>> THEN listed
                 ELSE InOrder(DOMAIN object)
  IN [columns |-> columns, values |-> [i \in DOMAIN columns |-> object[columns[i]]]]

(* Supabase: a list of distinct columns, as many as the object has. *)
SupabaseTakes(object, listed) ==
  listed # <<>> /\ Distinct(listed) /\ Len(listed) = Cardinality(DOMAIN object)

-----------------------------------------------------------------------------
NoRow == [columns |-> <<>>, values |-> <<>>, names |-> <<>>, at |-> 0, listed |-> TRUE]

Init ==
  /\ origin \in Given \cup Foreign \cup Planted
  /\ hop = IF origin \in Planted THEN "stored" ELSE "given"
  /\ value = origin
  /\ affinity = "none" /\ copies = 0
  /\ route \in {"local", "neon", "supabase"}
  /\ row = NoRow

Become(form, v) ==
  /\ hop' = IF v.kind \in {"error", "abort"} THEN "failed" ELSE form
  /\ value' = v

Accept ==
  /\ hop = "given" /\ Become("parameter", ToParameter(value))
  /\ UNCHANGED <<origin, affinity, copies, route, row>>

(* JSON over a wire, read at the other end as a parameter. *)
Crossed(v) == Parsed(ToParameter(ToJson(v)))

(* A remote call sends the parameter to a service. *)
Send ==
  /\ hop = "parameter"
  /\ \/ route = "local" /\ Become("bound", value)
     \/ /\ route = "neon" \/ (route = "supabase" /\ CheckParameters(value))
        /\ \E v \in Crossed(value) : Become("bound", v)
     \/ route = "supabase" /\ ~CheckParameters(value) /\ Become("failed", Error)
  /\ UNCHANGED <<origin, affinity, copies, route, row>>

Store ==
  /\ hop = "bound"
  /\ affinity' \in Affinities
  /\ Become("stored", Stored(Bound(value), affinity'))
  /\ UNCHANGED <<origin, copies, route, row>>

(* One row of copy_table_rows, into a column declared like the old one. *)
Copy ==
  /\ hop = "stored" /\ copies < MaxCopies
  /\ \E cell \in Cells(value) :
       Become("stored", IF cell.kind \in {"error", "abort"} THEN cell
                        ELSE Stored(Bound(Restored(cell)), affinity))
  /\ copies' = copies + 1
  /\ UNCHANGED <<origin, affinity, route, row>>

(* What a query reads: a stored value, or at a service that has columns of *)
(* every type, the value as it was sent.                                   *)
Readable ==
  (IF hop = "stored" THEN Cells(value) ELSE {}) \cup
  (IF hop = "bound" /\ route # "local" THEN {value} ELSE {})

(* A query of two columns, the value in one of them and NULL in the other; *)
(* names may be equal, and a remote response may leave out their list.     *)
Beside(cell, at) == [i \in 1 .. 2 |-> IF i = at THEN cell ELSE Nothing]

(* query_rows gives names and cells as the statement has them. *)
RowOf(names, cells, listed) ==
  IF route = "local" THEN [columns |-> names, values |-> cells]
                     ELSE ObjectRow(Object(names, cells), listed)

Taken(names, cells, listed) ==
  route = "supabase" => SupabaseTakes(Object(names, cells), listed)

ReadRow(cell, names, at, listed) ==
  LET cells == Beside(cell, at)
      list == IF listed THEN names ELSE <<>>
      got == RowOf(names, cells, list)
  IN \/ /\ Taken(names, cells, list)
        /\ Become("row", cell)
        /\ row' = [names |-> names, at |-> at, listed |-> listed, columns |-> got.columns,
                   values |-> got.values]
     \/ ~Taken(names, cells, list) /\ Become("failed", Error) /\ UNCHANGED row

Read ==
  /\ \/ \E cell \in Readable \cap {Error, V("abort", 0)} :
          Become("failed", cell) /\ UNCHANGED row
     \/ \E cell \in Readable \ {Error, V("abort", 0)}, names \in Columns \X Columns,
           at \in 1 .. 2, listed \in BOOLEAN :
          \E received \in (IF route = "local" THEN {cell} ELSE Crossed(cell)) :
            ReadRow(received, names, at, listed)
  /\ UNCHANGED <<origin, affinity, copies, route>>

Next == Accept \/ Send \/ Store \/ Copy \/ Read

Spec == Init /\ [][Next]_vars

-----------------------------------------------------------------------------
NonFinite == origin.kind \in {"nan", "infinite"}
Wrapped == origin.kind = "unsigned" /\ ~Fits(origin.number)

(* What the getter of the caller's own type makes of a cell. *)
Own(c) ==
  CASE origin.kind = "bool" -> GetBool(c)
    [] origin.kind \in {"integer", "unsigned"} -> GetInt(c)
    [] origin.kind \in {"real", "nan", "infinite"} -> GetReal(c)
    [] origin.kind \in {"numeral", "word", "bytes"} -> GetText(c)
    [] origin.kind = "blob" -> GetBlob(c)
    [] OTHER -> IF IsNull(c) THEN c ELSE Error

(* The origin, or after one or two parses of JSON a double next to it.     *)
Expected ==
  CASE origin.kind = "unsigned" -> {V("integer", origin.number)}
    [] route # "local" /\ origin.kind = "real" -> UNION {Parsed(v) : v \in Parsed(origin)}
    [] OTHER -> {origin}

(* Whatever column, route and rebuilds a value went through, the getter of *)
(* its own type gives it back or an error, never another value; and only   *)
(* NULL, or a number that is not finite, reads as NULL.  The exception is  *)
(* an unsigned integer above i64::MAX, which `as i64` makes negative       *)
(* (rows.rs:143, rows.rs:214).                                             *)
NothingAltered ==
  hop = "row" =>
    /\ Own(value) \in Expected \cup {Error} \/ Wrapped
    /\ IsNull(value) => origin = Nothing \/ NonFinite

(* In a column declared for its type, or read as it was sent, a finite     *)
(* value is always read back by its getter: no step but the undefined      *)
(* slice of an empty blob, and for a remote row the shape of the response, *)
(* makes it fail (the table of rows.rs:9-21).                              *)
Declared ==
  CASE origin.kind \in {"bool", "integer", "unsigned"} -> {"none", "numeric"}
    [] origin.kind = "real" -> {"none", "numeric", "real"}
    [] origin.kind = "numeral" -> {"none", "text"}
    [] OTHER -> Affinities
Sound == origin \in Given /\ ~NonFinite /\ ~Wrapped
ReadsBack ==
  /\ hop = "row" /\ Sound /\ affinity \in Declared => Own(value) \in Expected
  /\ hop = "failed" /\ Sound =>
       \/ value.kind = "abort" /\ origin = V("blob", -1)
       \/ route = "supabase"

(* A rebuild copies every value as it is, whatever the column, and refuses *)
(* the row only for an infinity, text that is not UTF-8, or an abort.      *)
CopyExact ==
  [][copies' > copies =>
       \/ hop' = "stored" /\ value' = value
       \/ hop' = "failed" /\ value.kind \in {"infinite", "bytes"}
       \/ hop' = "failed" /\ value' = V("abort", 0) /\ value = V("blob", -1)]_vars

(* A parameter that a remote route sends is the one the service gets.  A   *)
(* number that JSON has no form for arrives as NULL on the Neon route and  *)
(* is refused on the other (supabase.rs:274).                              *)
ParametersArrive ==
  [][hop = "parameter" /\ hop' = "bound" =>
       value' \in Parsed(value) \/ (route = "neon" /\ NonFinite /\ value' = Nothing)]_vars

(* A name gives the cell of the first column that has it, a position that  *)
(* of the column at it (rows.rs:20).  A Neon row is an object: equal names *)
(* give the last, and columns that are not listed come in their own order. *)
LookupTrue ==
  hop = "row" =>
    LET name == row.names[row.at]
        first == Min({i \in DOMAIN row.names : row.names[i] = name})
    IN /\ route # "neon" \/ Distinct(row.names) =>
            row.values[Position(row.columns, name)] = Beside(value, row.at)[first]
       /\ route # "neon" \/ (Distinct(row.names) /\ row.listed) =>
            row.columns = row.names /\ row.values = Beside(value, row.at)
=============================================================================
