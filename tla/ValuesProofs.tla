---------------------------- MODULE ValuesProofs ----------------------------
(***************************************************************************)
(* Theorems about Values, for integers and reals of any width, any bytes,  *)
(* and any number of rebuilds.                                             *)
(***************************************************************************)
EXTENDS Values, FiniteSetTheorems, TLAPS

Kinds == {"null", "bool", "integer", "real", "nan", "infinite", "numeral", "word", "blob", "bytes"}

(* A value on its way after Accept: an integer fits, as JSON that is read  *)
(* again relies on.                                                        *)
Sane(v) ==
  /\ v \in [kind : Kinds, number : Int]
  /\ v.kind = "integer" => v.number < Top
  /\ v.kind = "blob" => v.number <= MaxByte
  /\ v.kind = "bool" => v.number \in {0, 1}
  /\ v.kind \in {"null", "nan", "infinite", "word", "bytes"} => v.number = 0

(* What the origin is as a parameter, what may have become of it at the    *)
(* database it is bound at, and in a column.                               *)
Accepted == ToParameter(origin)
Sent(b) ==
  /\ origin \notin Planted
  /\ \/ route = "local" /\ b = Accepted
     \/ /\ route # "local" /\ Accepted.kind \notin {"nan", "infinite"}
        /\ b \in Parsed(Accepted)
     \/ route = "neon" /\ Accepted.kind \in {"nan", "infinite"} /\ b = Nothing
Kept(s) ==
  \/ \E b : Sane(b) /\ Sent(b) /\ s = Stored(Bound(b), affinity)
  \/ origin = V("bytes", 0) /\ s = origin
Seen(c) ==
  \/ Kept(c)
  \/ route # "local" /\ affinity = "none" /\ Sane(c) /\ Sent(c)

JourneyInv ==
  /\ origin \in Given \cup Foreign \cup Planted
  /\ affinity \in Affinities /\ route \in {"local", "neon", "supabase"} /\ copies \in Nat
  /\ hop \in {"given", "parameter", "bound", "stored", "row", "failed"}
  /\ hop \in {"given", "parameter", "bound"} => affinity = "none"
  /\ hop = "given" => value = origin /\ origin \notin Planted
  /\ hop = "parameter" => value = Accepted /\ Sane(value) /\ origin \notin Planted
  /\ hop = "bound" => Sane(value) /\ Sent(value)
  /\ hop = "stored" => Sane(value) /\ Kept(value)
  /\ hop = "row" =>
       \E c : /\ Sane(c) /\ Seen(c) /\ c.kind \notin {"infinite", "bytes"}
              /\ value = c \/ (route # "local" /\ value \in Crossed(c))

-----------------------------------------------------------------------------
(* Numbers *)
LEMMA Widths == Top \in Int /\ Top >= 2 /\ Modulus = 2 * Top /\ Exact \in Nat /\ MaxByte \in Nat
BY ValuesAssumption DEF Modulus

LEMMA RoundedTwice ==
  ASSUME NEW n \in Int
  PROVE  Rounded(n) \in Int /\ Rounded(Rounded(n)) = Rounded(n)
<1>1. 2 * (n \div 2) \in Int /\ 2 * ((2 * (n \div 2)) \div 2) = 2 * (n \div 2)
  OBVIOUS
<1> QED
  BY <1>1, Widths DEF Rounded

LEMMA HalvesAre ==
  ASSUME NEW h \in Halves
  PROVE  /\ h \in Int
         /\ h % 2 = 0 => \E n \in Int : h = 2 * n /\ Rounded(n) = n
<1>1. CASE h \in {-1, 1}
  BY <1>1
<1>2. CASE h \in {2 * n : n \in {Rounded(m) : m \in -Top .. Top}}
  <2>1. PICK m \in -Top .. Top : h = 2 * Rounded(m)
    BY <1>2
  <2> QED
    BY <2>1, Widths, RoundedTwice
<1> QED
  BY <1>1, <1>2 DEF Halves

-----------------------------------------------------------------------------
(* The conversions *)

(* What the program accepts is sane, and an integer stays below the range  *)
(* that JSON would read as another one.                                    *)
LEMMA AcceptedIsSane ==
  ASSUME NEW v \in Given \cup Foreign
  PROVE  /\ ToParameter(v) = Error \/ Sane(ToParameter(v))
         /\ ToParameter(v).kind # "bytes"
<1> USE Widths DEF ToParameter, Sane, Kinds, V, Error
<1>1. CASE v \in {V("integer", n) : n \in -Top .. Top - 1}
  BY <1>1
<1>2. CASE v \in {V("real", h) : h \in Halves} \cup {V("numeral", h) : h \in Halves}
  <2>1. PICK h \in Halves : v = V("real", h) \/ v = V("numeral", h)
    BY <1>2
  <2>2. h \in Int
    BY HalvesAre
  <2> QED
    BY <2>1, <2>2
<1>3. CASE v \in {V("unsigned", n) : n \in 0 .. Modulus - 1}
  BY <1>3 DEF Wrap
<1>4. CASE v \in {V("blob", b) : b \in Bytes} \cup {V("blob", MaxByte + 1)}
  BY <1>4 DEF Bytes
<1>5. CASE v \in {Nothing, V("nan", 0), V("infinite", 0), V("word", 0), V("object", 0)}
           \cup {Truth(b) : b \in BOOLEAN}
  BY <1>5 DEF Nothing, Truth
<1> QED
  BY <1>1, <1>2, <1>3, <1>4, <1>5 DEF Given, Foreign, Numbers

LEMMA ParsedKind ==
  ASSUME NEW v, NEW w \in Parsed(v)
  PROVE  w.kind = v.kind
BY DEF Parsed, V

LEMMA ParsedIsSane ==
  ASSUME NEW v, Sane(v), NEW w \in Parsed(v)
  PROVE  /\ Sane(w) /\ w.kind = v.kind
         /\ w = v \/ (v.kind = "real" /\ v.number % 2 = 1 /\ w.number % 2 = 1)
<1>1. CASE v.kind = "real" /\ v.number % 2 = 1
  <2>1. PICK d \in {-2, 0, 2} : w = V("real", v.number + d)
    BY <1>1 DEF Parsed
  <2>2. v.number \in Int
    BY DEF Sane
  <2>3. (v.number + d) % 2 = 1
    BY <1>1, <2>2
  <2> QED
    BY <1>1, <2>1, <2>2, <2>3 DEF V, Sane, Kinds
<1>2. CASE ~(v.kind = "real" /\ v.number % 2 = 1)
  BY <1>2 DEF Parsed
<1> QED
  BY <1>1, <1>2

(* JSON gives back what it is given, but for doubles parsed without care   *)
(* and numbers that are not finite.                                        *)
LEMMA CrossedIs ==
  ASSUME NEW v, Sane(v)
  PROVE  Crossed(v) = IF v.kind \in {"nan", "infinite"} THEN {Nothing} ELSE Parsed(v)
<1> USE Widths DEF Sane, Kinds, V
<1>1. CASE v.kind \in {"nan", "infinite"}
  BY <1>1 DEF Crossed, ToJson, ToParameter, Parsed, Nothing
<1>2. CASE v.kind = "integer" /\ v.number >= 0
  <2>1. ToJson(v) = V("unsigned", v.number)
    BY <1>2 DEF ToJson
  <2>2. ToParameter(ToJson(v)) = V("integer", v.number)
    BY <1>2, <2>1 DEF ToParameter, Wrap
  <2> QED
    BY <1>2, <2>2 DEF Crossed
<1>3. CASE v.kind \notin {"nan", "infinite"} /\ ~(v.kind = "integer" /\ v.number >= 0)
  <2>1. ToJson(v) = v
    BY <1>3 DEF ToJson
  <2>2. ToParameter(v) = v
    BY <1>3 DEF ToParameter
  <2> QED
    BY <1>3, <2>1, <2>2 DEF Crossed
<1> QED
  BY <1>1, <1>2, <1>3

(* What binding and a column make of a sane value is sane. *)
LEMMA StoredIsSane ==
  ASSUME NEW v, Sane(v), NEW column \in Affinities
  PROVE  Sane(Stored(Bound(v), column))
<1> USE Widths DEF Sane, Kinds, V
<1>1. CASE v.kind \in {"bool", "nan"}
  <2>1. Bound(v) = Nothing \/ (Bound(v) = V("integer", v.number) /\ v.number \in {0, 1})
    BY <1>1 DEF Bound
  <2>2. CASE Bound(v) = Nothing
    BY <2>2 DEF Stored, Nothing
  <2>3. CASE Bound(v) = V("integer", v.number) /\ v.number \in {0, 1}
    <3>1. Rounded(v.number) \in Int
      BY <2>3, RoundedTwice
    <3> QED
      BY <2>3, <3>1 DEF Stored
  <2> QED
    BY <2>1, <2>2, <2>3
<1>2. CASE v.kind \notin {"bool", "nan"}
  <2>1. Bound(v) = v
    BY <1>2 DEF Bound
  <2>2. CASE column = "text"
    BY <2>1, <2>2 DEF Stored
  <2>3. CASE column = "numeric"
    BY <2>1, <2>3 DEF Stored, AsInteger, Fits
  <2>4. CASE column = "real"
    BY <2>1, <2>4, RoundedTwice DEF Stored
  <2> QED
    BY <2>1, <2>2, <2>3, <2>4 DEF Stored, Affinities
<1> QED
  BY <1>1, <1>2

(* A value that a column gave out goes into the same column as it is: the  *)
(* second conversion finds nothing to do.                                  *)
LEMMA StoredTwice ==
  ASSUME NEW b, Sane(b), NEW column \in Affinities,
         NEW s, s = Stored(Bound(b), column) \/ s = V("bytes", 0)
  PROVE  Stored(Bound(s), column) = s
<1> USE Widths DEF Sane, Kinds, V
<1>1. CASE s = V("bytes", 0)
  BY <1>1 DEF Bound, Stored
<1>2. CASE s = Stored(Bound(b), column)
  <2>1. PICK x : x = Bound(b)
    OBVIOUS
  <2>2. x \in [kind : Kinds, number : Int] /\ x.kind \notin {"bool", "nan"}
    BY <2>1 DEF Bound, Nothing
  <2>3. s = Stored(x, column)
    BY <1>2, <2>1
  <2>4. CASE column = "none"
    BY <2>2, <2>3, <2>4 DEF Stored, Bound
  <2>5. CASE column = "text"
    BY <2>2, <2>3, <2>5 DEF Stored, Bound
  <2>6. CASE column = "numeric"
    BY <2>2, <2>3, <2>6 DEF Stored, Bound, AsInteger, Fits
  <2>7. CASE column = "real"
    BY <2>2, <2>3, <2>7 DEF Stored, Bound
  <2> QED
    BY <2>4, <2>5, <2>6, <2>7 DEF Affinities
<1> QED
  BY <1>1, <1>2

-----------------------------------------------------------------------------
(* The way of a value *)
LEMMA InitJourney == Init => JourneyInv
<1> SUFFICES ASSUME Init PROVE JourneyInv
  OBVIOUS
<1>1. origin \in Planted => Sane(value) /\ Kept(value)
  BY Widths DEF Init, Planted, Sane, Kinds, V, Kept
<1> QED
  BY <1>1 DEF Init, JourneyInv, Affinities

(* A value that is no error arrives where it was going. *)
LEMMA Arrives ==
  ASSUME NEW form, NEW v, Become(form, v), Sane(v)
  PROVE  hop' = form /\ value' = v
BY DEF Become, Sane, Kinds

LEMMA Fails ==
  ASSUME NEW form, NEW v, Become(form, v), v.kind \in {"error", "abort"}
  PROVE  hop' = "failed"
BY DEF Become

(* A rebuild finds the same value, or fails. *)
LEMMA CopyKeeps ==
  ASSUME JourneyInv, Copy
  PROVE  \/ hop' = "stored" /\ value' = value
         \/ hop' = "failed" /\ value.kind \in {"infinite", "bytes"}
         \/ hop' = "failed" /\ value' = V("abort", 0) /\ value = V("blob", -1)
<1>1. Sane(value) /\ Kept(value)
  BY DEF JourneyInv, Copy
<1>2. PICK cell \in Cells(value) :
        Become("stored", IF cell.kind \in {"error", "abort"} THEN cell
                         ELSE Stored(Bound(Restored(cell)), affinity))
  BY DEF Copy
<1>3. CASE value.kind \in {"infinite", "bytes"}
  <2>1. cell.kind = "error"
    BY <1>2, <1>3 DEF Cells, Error, V
  <2> QED
    BY <1>2, <1>3, <2>1, Fails
<1>4. CASE cell = V("abort", 0) /\ value = V("blob", -1)
  <2>1. cell.kind = "abort"
    BY <1>4 DEF V
  <2> QED
    BY <1>2, <1>4, <2>1 DEF Become
<1>5. CASE cell = value
  <2>1. cell.kind \notin {"error", "abort"} /\ Restored(cell) = cell
    BY <1>1, <1>5, Widths DEF Sane, Kinds, Restored
  <2>2. Stored(Bound(value), affinity) = value
    <3>1. CASE origin = V("bytes", 0) /\ value = origin
      BY <1>1, <3>1, StoredTwice DEF JourneyInv
    <3>2. CASE \E b : Sane(b) /\ Sent(b) /\ value = Stored(Bound(b), affinity)
      <4>1. PICK b : Sane(b) /\ value = Stored(Bound(b), affinity)
        BY <3>2
      <4> QED
        BY <4>1, StoredTwice DEF JourneyInv
    <3> QED
      BY <1>1, <3>1, <3>2 DEF Kept
  <2> QED
    BY <1>1, <1>2, <1>5, <2>1, <2>2, Arrives
<1> QED
  BY <1>2, <1>3, <1>4, <1>5 DEF Cells

(* What is sent is the value, up to what JSON makes of it. *)
LEMMA SendKeeps ==
  ASSUME JourneyInv, Send, hop' = "bound"
  PROVE  /\ Sane(value')
         /\ \/ route = "local" /\ value' = value
            \/ /\ route # "local" /\ value.kind \notin {"nan", "infinite"}
               /\ value' \in Parsed(value)
            \/ route = "neon" /\ value.kind \in {"nan", "infinite"} /\ value' = Nothing
<1>1. Sane(value) /\ hop = "parameter"
  BY DEF JourneyInv, Send
<1>2. CASE route = "local" /\ Become("bound", value)
  BY <1>1, <1>2, Arrives
<1>3. CASE route # "local" /\ (\E v \in Crossed(value) : Become("bound", v))
           /\ (route = "neon" \/ CheckParameters(value))
  <2>1. PICK v \in Crossed(value) : Become("bound", v)
    BY <1>3
  <2>2. CASE value.kind \in {"nan", "infinite"}
    <3>1. v = Nothing /\ Sane(v) /\ route = "neon"
      BY <1>1, <1>3, <2>2, CrossedIs, Widths DEF CheckParameters, Nothing, V, Sane, Kinds
    <3> QED
      BY <2>1, <2>2, <3>1, Arrives
  <2>3. CASE value.kind \notin {"nan", "infinite"}
    <3>1. v \in Parsed(value) /\ Sane(v)
      BY <1>1, <2>3, CrossedIs, ParsedIsSane
    <3> QED
      BY <1>3, <2>1, <2>3, <3>1, Arrives
  <2> QED
    BY <2>2, <2>3
<1>4. CASE Become("failed", Error)
  BY <1>4 DEF Become
<1> QED
  BY <1>2, <1>3, <1>4 DEF Send, JourneyInv

(* What a successful read gives. *)
RowTaken(received, names, at, listed) ==
  LET list == IF listed THEN names ELSE <<>>
  IN /\ Taken(names, Beside(received, at), list)
     /\ Become("row", received)
     /\ row'.names = names /\ row'.at = at /\ row'.listed = listed
     /\ row'.columns = RowOf(names, Beside(received, at), list).columns
     /\ row'.values = RowOf(names, Beside(received, at), list).values

LEMMA ReadGives ==
  ASSUME Read, hop' # "failed"
  PROVE  \E cell \in Readable \ {Error, V("abort", 0)}, names \in Columns \X Columns,
            at \in 1 .. 2, listed \in BOOLEAN :
           \E received \in (IF route = "local" THEN {cell} ELSE Crossed(cell)) :
             RowTaken(received, names, at, listed)
<1>1. ASSUME NEW cell \in Readable \cap {Error, V("abort", 0)}, Become("failed", cell)
      PROVE  FALSE
  BY <1>1 DEF Become
<1>2. PICK cell \in Readable \ {Error, V("abort", 0)}, names \in Columns \X Columns,
           at \in 1 .. 2, listed \in BOOLEAN :
             \E received \in (IF route = "local" THEN {cell} ELSE Crossed(cell)) :
               ReadRow(received, names, at, listed)
  BY <1>1 DEF Read
<1>3. PICK received \in (IF route = "local" THEN {cell} ELSE Crossed(cell)) :
        ReadRow(received, names, at, listed)
  BY <1>2
<1>4. ~Become("failed", Error)
  BY DEF Become
<1>5. RowTaken(received, names, at, listed)
  BY <1>3, <1>4 DEF ReadRow, RowTaken
<1> QED
  BY <1>3, <1>5

LEMMA StepJourney == JourneyInv /\ [Next]_vars => JourneyInv'
<1> SUFFICES ASSUME JourneyInv, [Next]_vars PROVE JourneyInv'
  OBVIOUS
<1>1. CASE Accept
  <2>1. Become("parameter", Accepted) /\ origin \in Given \cup Foreign
    BY <1>1 DEF Accept, JourneyInv, Accepted
  <2>1a. origin \notin Planted
    BY <1>1 DEF Accept, JourneyInv
  <2>2. CASE Accepted = Error
    <3>1. hop' = "failed"
      BY <2>1, <2>2 DEF Become, Error, V
    <3> QED
      BY <1>1, <3>1 DEF Accept, JourneyInv
  <2>3. CASE Sane(Accepted)
    <3>1. hop' = "parameter" /\ value' = Accepted
      BY <2>1, <2>3, Arrives
    <3>2. Accepted' = Accepted
      BY <1>1 DEF Accept, Accepted
    <3> QED
      BY <1>1, <2>1a, <2>3, <3>1, <3>2 DEF Accept, JourneyInv, Sane
  <2> QED
    BY <2>1, <2>2, <2>3, AcceptedIsSane DEF Accepted
<1>2. CASE Send
  <2>1. hop' \in {"bound", "failed"}
    BY <1>2 DEF Send, Become
  <2>2. value = Accepted /\ Accepted' = Accepted
    BY <1>2 DEF Send, JourneyInv, Accepted
  <2>3. hop' = "bound" => Sane(value') /\ Sent(value')
    BY <1>2, <2>2, SendKeeps DEF Sent, Send, JourneyInv
  <2>4. hop' = "bound" => (Sane(value) /\ Sent(value))'
    BY <1>2, <2>2, <2>3 DEF Send, Sane, Sent
  <2> QED
    BY <1>2, <2>1, <2>4 DEF Send, JourneyInv
<1>3. CASE Store
  <2>1. Sane(value) /\ Sent(value) /\ affinity' \in Affinities
    BY <1>3 DEF Store, JourneyInv
  <2>2. Sane(Stored(Bound(value), affinity'))
    BY <2>1, StoredIsSane
  <2>3. hop' = "stored" /\ value' = Stored(Bound(value), affinity')
    BY <1>3, <2>2, Arrives DEF Store
  <2>4. \E b : Sane(b) /\ Sent(b)' /\ value' = Stored(Bound(b), affinity')
    BY <1>3, <2>1, <2>3 DEF Store, Sent, Accepted
  <2>5. (Sane(value) /\ Kept(value))'
    BY <2>2, <2>3, <2>4 DEF Kept, Sane
  <2> QED
    BY <1>3, <2>1, <2>3, <2>5 DEF Store, JourneyInv
<1>4. CASE Copy
  <2>1. UNCHANGED <<origin, affinity, route>> /\ copies' = copies + 1 /\ hop = "stored"
    BY <1>4 DEF Copy
  <2>2. CASE hop' = "stored" /\ value' = value
    BY <2>1, <2>2 DEF JourneyInv, Sane, Kept, Sent, Accepted
  <2>3. CASE hop' = "failed"
    BY <2>1, <2>3 DEF JourneyInv
  <2> QED
    BY <1>4, <2>2, <2>3, CopyKeeps
<1>5. CASE Read
  <2>1. UNCHANGED <<origin, affinity, copies, route>>
    BY <1>5 DEF Read
  <2>2. CASE hop' = "failed"
    BY <2>1, <2>2 DEF JourneyInv
  <2>3. CASE hop' # "failed"
    <3>1. PICK cell \in Readable \ {Error, V("abort", 0)} :
            \E received \in (IF route = "local" THEN {cell} ELSE Crossed(cell)) :
              Become("row", received)
      BY <1>5, <2>3, ReadGives DEF RowTaken
    <3>2. Sane(cell) /\ Seen(cell) /\ cell.kind \notin {"infinite", "bytes"}
      <4>1. CASE hop = "stored" /\ cell \in Cells(value)
        <5>1. value.kind \notin {"infinite", "bytes"} /\ cell = value
          BY <3>1, <4>1 DEF Cells, V
        <5> QED
          BY <4>1, <5>1 DEF JourneyInv, Seen
      <4>2. CASE hop = "bound" /\ route # "local" /\ cell = value
        <5>1. Sane(cell) /\ Sent(cell) /\ affinity = "none" /\ origin \in Given \cup Foreign
          BY <4>2 DEF JourneyInv, Sent
        <5>2. cell.kind \notin {"infinite", "bytes"}
          <6>1. Accepted.kind # "bytes"
            BY <5>1, AcceptedIsSane DEF Accepted
          <6> QED
            BY <4>2, <5>1, <6>1, ParsedKind DEF Sent, Nothing, V, JourneyInv
        <5> QED
          BY <4>2, <5>1, <5>2 DEF Seen
      <4> QED
        BY <3>1, <4>1, <4>2 DEF Readable
    <3>3. PICK received \in (IF route = "local" THEN {cell} ELSE Crossed(cell)) :
            Become("row", received)
      BY <3>1
    <3>4. Sane(received)
      <4>1. Sane(Nothing)
        BY Widths DEF Sane, Kinds, Nothing, V
      <4> QED
        BY <3>2, <3>3, <4>1, CrossedIs, ParsedIsSane
    <3>5. hop' = "row" /\ value' = received
      BY <3>3, <3>4, Arrives
    <3>6. Seen(cell)'
      BY <2>1, <3>2 DEF Seen, Kept, Sent, Accepted
    <3>7. (\E c : /\ Sane(c) /\ Seen(c) /\ c.kind \notin {"infinite", "bytes"}
                  /\ value = c \/ (route # "local" /\ value \in Crossed(c)))'
      BY <2>1, <3>2, <3>3, <3>5, <3>6
    <3> QED
      BY <2>1, <3>5, <3>7 DEF JourneyInv
  <2> QED
    BY <2>2, <2>3
<1>6. CASE UNCHANGED vars
  BY <1>6 DEF vars, JourneyInv, Sane, Seen, Kept, Sent, Accepted
<1> QED
  BY <1>1, <1>2, <1>3, <1>4, <1>5, <1>6 DEF Next

LEMMA JourneyHolds == Spec => []JourneyInv
BY InitJourney, StepJourney, PTL DEF Spec

(* A parameter that a remote route sends is the one the service gets, for  *)
(* any widths of integers and reals; the exceptions are the property's.    *)
THEOREM ParametersGetThere == Spec => ParametersArrive
<1>1. JourneyInv /\ [Next]_vars =>
        [hop = "parameter" /\ hop' = "bound" =>
           value' \in Parsed(value) \/ (route = "neon" /\ NonFinite /\ value' = Nothing)]_vars
  <2> SUFFICES ASSUME JourneyInv, [Next]_vars, hop = "parameter", hop' = "bound"
               PROVE  value' \in Parsed(value) \/ (route = "neon" /\ NonFinite /\ value' = Nothing)
    OBVIOUS
  <2>1. Send
    BY DEF Next, Accept, Store, Copy, Read, ReadRow, Become, vars
  <2>2. value \in Parsed(value)
    BY Widths DEF Parsed, JourneyInv, Sane, Kinds, V
  <2>3. value.kind \in {"nan", "infinite"} => NonFinite
    BY DEF JourneyInv, Accepted, ToParameter, V, Error, NonFinite
  <2> QED
    BY <2>1, <2>2, <2>3, SendKeeps
<1> QED
  BY <1>1, JourneyHolds, PTL DEF Spec, ParametersArrive

(* A rebuild copies every value as it is, or refuses the row for the       *)
(* reasons the property names, after any number of rebuilds before it.     *)
THEOREM CopiesAreExact == Spec => CopyExact
<1>1. JourneyInv /\ [Next]_vars =>
        [copies' > copies =>
           \/ hop' = "stored" /\ value' = value
           \/ hop' = "failed" /\ value.kind \in {"infinite", "bytes"}
           \/ hop' = "failed" /\ value' = V("abort", 0) /\ value = V("blob", -1)]_vars
  <2> SUFFICES ASSUME JourneyInv, [Next]_vars, copies' > copies PROVE Copy
    BY CopyKeeps
  <2> QED
    BY DEF Next, Accept, Send, Store, Read, vars, JourneyInv
<1> QED
  BY <1>1, JourneyHolds, PTL DEF Spec, CopyExact

-----------------------------------------------------------------------------
(* What a row shows of a value: b was sent, c is the cell at the database. *)
Shown(b, c) ==
  /\ Sane(b) /\ Sent(b)
  /\ \/ c = Stored(Bound(b), affinity)
     \/ c = b /\ affinity = "none" /\ route # "local"
  /\ Sane(c) /\ c.kind \notin {"infinite", "nan", "bytes"}
  /\ value \in Parsed(c) /\ (route = "local" => value = c)

LEMMA SomeCell ==
  ASSUME JourneyInv, hop = "row"
  PROVE  \E b, c : Shown(b, c)
<1>1. PICK c : /\ Sane(c) /\ Seen(c) /\ c.kind \notin {"infinite", "bytes"}
               /\ value = c \/ (route # "local" /\ value \in Crossed(c))
  BY DEF JourneyInv
<1>2. PICK b : /\ Sane(b) /\ Sent(b)
               /\ \/ c = Stored(Bound(b), affinity)
                  \/ c = b /\ affinity = "none" /\ route # "local"
  BY <1>1 DEF Seen, Kept, V
<1>3. c.kind # "nan"
  <2>1. CASE c = b /\ route # "local"
    BY <2>1, <1>2, ParsedKind DEF Sent, Nothing, V
  <2>2. CASE c = Stored(Bound(b), affinity)
    <3>1. PICK x : x = Bound(b)
      OBVIOUS
    <3>2. x.kind # "nan"
      BY <3>1 DEF Bound, Nothing, V
    <3>3. c = Stored(x, affinity)
      BY <2>2, <3>1
    <3> QED
      BY <3>2, <3>3 DEF Stored, AsInteger, V
  <2> QED
    BY <1>2, <2>1, <2>2
<1>4. Crossed(c) = Parsed(c) /\ c \in Parsed(c)
  <2>1. Crossed(c) = Parsed(c)
    BY <1>1, <1>3, CrossedIs
  <2>2. c \in Parsed(c)
    BY <1>1 DEF Parsed, Sane, V
  <2> QED
    BY <2>1, <2>2
<1> QED
  BY <1>1, <1>2, <1>3, <1>4 DEF Shown

(* What its getter makes of it: the value, or in a column of another type  *)
(* an error.                                                               *)
True(v) ==
  /\ Own(v) \in Expected \/ (Own(v) = Error /\ (affinity \notin Declared \/ NonFinite)) \/ Wrapped
  /\ IsNull(v) => origin = Nothing \/ NonFinite

LEMMA SentIs ==
  ASSUME JourneyInv, NEW b, Sane(b), Sent(b)
  PROVE  /\ Sane(Accepted)
         /\ Accepted = IF origin.kind = "unsigned" THEN V("integer", Wrap(origin.number))
                       ELSE origin
         /\ Accepted.kind \notin {"real", "nan", "infinite"} => b = Accepted
         /\ Accepted.kind = "real" =>
              b \in Parsed(Accepted) /\ (route = "local" => b = Accepted)
         /\ Accepted.kind \in {"nan", "infinite"} =>
              b = Nothing \/ (route = "local" /\ b = Accepted)
<1>1. Accepted # Error
  BY DEF Sent, Parsed, Error, V, Sane, Kinds, Nothing
<1>2. Sane(Accepted)
  BY <1>1, AcceptedIsSane DEF Accepted, Sent, JourneyInv
<1>3. Accepted = IF origin.kind = "unsigned" THEN V("integer", Wrap(origin.number)) ELSE origin
  BY <1>1 DEF Accepted, ToParameter
<1>4. Accepted \in Parsed(Accepted)
  BY <1>2 DEF Parsed, Sane, V
<1>5. Accepted.kind \notin {"real", "nan", "infinite"} => b = Accepted
  BY DEF Sent, Parsed
<1>6. Accepted.kind = "real" => b \in Parsed(Accepted) /\ (route = "local" => b = Accepted)
  BY <1>4 DEF Sent
<1>7. Accepted.kind \in {"nan", "infinite"} => b = Nothing \/ (route = "local" /\ b = Accepted)
  BY DEF Sent
<1> QED
  BY <1>2, <1>3, <1>5, <1>6, <1>7

(* A cell that is not a double arrives as it is. *)
LEMMA PlainCell ==
  ASSUME NEW b, NEW c, Shown(b, c), c.kind # "real"
  PROVE  value = c
BY DEF Shown, Parsed

LEMMA RealCell ==
  ASSUME NEW b, NEW c, Shown(b, c), c.kind = "real"
  PROVE  value.kind = "real"
BY ParsedKind DEF Shown

LEMMA ShownBool ==
  ASSUME JourneyInv, NEW b, NEW c, Shown(b, c), origin.kind = "bool"
  PROVE  True(value)
<1>1. Sane(origin) /\ b = origin
  BY SentIs DEF Shown
<1>2. PICK n \in {0, 1} : b = V("bool", n)
  BY <1>1 DEF Sane, V
<1>3. \/ c = V("bool", n) \/ c = V("integer", n)
      \/ affinity \in {"text", "real"} /\ c.kind \in {"numeral", "real"}
  BY <1>2 DEF Shown, Bound, Stored, V, JourneyInv, Affinities
<1>4. Expected = {V("bool", n)}
  BY <1>1, <1>2 DEF Expected, V
<1>5. Own(value) = GetBool(value)
  BY <1>1, <1>2 DEF Own, V
<1>6. CASE c = V("bool", n) \/ c = V("integer", n)
  BY <1>4, <1>5, <1>6, PlainCell DEF True, GetBool, IsNull, V
<1>7. CASE affinity \in {"text", "real"} /\ c.kind \in {"numeral", "real"}
  <2>1. value.kind \in {"numeral", "real"}
    BY <1>7, PlainCell, RealCell
  <2> QED
    BY <1>1, <1>2, <1>5, <1>7, <2>1 DEF True, GetBool, IsNull, Declared, V
<1> QED
  BY <1>3, <1>6, <1>7

LEMMA ShownInteger ==
  ASSUME JourneyInv, NEW b, NEW c, Shown(b, c), origin.kind \in {"integer", "unsigned"}
  PROVE  True(value)
<1>1. Sane(Accepted) /\ b = Accepted /\ Accepted.kind = "integer"
  BY SentIs DEF Shown, V
<1>2. PICK n \in Int : b = V("integer", n)
  BY <1>1 DEF Sane, V
<1>3. \/ c = V("integer", n)
      \/ affinity \in {"text", "real"} /\ c.kind \in {"numeral", "real"}
  BY <1>2 DEF Shown, Bound, Stored, V, JourneyInv, Affinities
<1>4. Wrapped \/ Expected = {V("integer", n)}
  <2>1. CASE origin.kind = "integer"
    BY <1>1, <1>2, <2>1, SentIs DEF Expected, Shown
  <2>2. CASE origin.kind = "unsigned" /\ ~Wrapped
    <3>1. origin.number \in Int /\ Wrap(origin.number) = origin.number
      BY <2>2, Widths DEF Wrapped, Fits, Wrap
    <3>2. n = origin.number
      BY <1>1, <1>2, <2>2, <3>1, SentIs DEF Shown, V
    <3> QED
      BY <2>2, <3>2 DEF Expected
  <2> QED
    BY <2>1, <2>2
<1>5. Own(value) = GetInt(value)
  BY DEF Own
<1>6. CASE c = V("integer", n)
  BY <1>4, <1>5, <1>6, PlainCell DEF True, GetInt, IsNull, V
<1>7. CASE affinity \in {"text", "real"} /\ c.kind \in {"numeral", "real"}
  <2>1. value.kind \in {"numeral", "real"}
    BY <1>7, PlainCell, RealCell
  <2> QED
    BY <1>5, <1>7, <2>1 DEF True, GetInt, IsNull, Declared
<1> QED
  BY <1>3, <1>6, <1>7

(* An even number of halves comes back from an integer column as it was;   *)
(* an odd one, from whichever parse of it was stored.                      *)
LEMMA ShownReal ==
  ASSUME JourneyInv, NEW b, NEW c, Shown(b, c), origin.kind = "real"
  PROVE  True(value)
<1>1. Sane(origin) /\ Accepted = origin
  BY SentIs DEF Shown
<1>2. PICK h \in Halves : origin = V("real", h)
  BY <1>1 DEF JourneyInv, Given, Foreign, Planted, Numbers, Nothing, Truth, V
<1>3. h \in Int
  BY HalvesAre
<1>4. Own(value) = GetReal(value)
  BY <1>2 DEF Own, V
<1>5. CASE h % 2 = 0
  <2>1. Parsed(origin) = {origin}
    BY <1>2, <1>5 DEF Parsed, V
  <2>2. b = origin
    BY <1>1, <1>2, <2>1, SentIs DEF Shown, V
  <2>3. Expected = {origin}
    BY <1>2, <2>1 DEF Expected, V
  <2>4. \/ c = origin \/ c = V("integer", h \div 2)
        \/ affinity = "text" /\ c.kind = "numeral"
    BY <1>2, <2>2 DEF Shown, Bound, Stored, AsInteger, V, JourneyInv, Affinities
  <2>5. CASE c = origin
    <3>1. value = origin
      BY <2>1, <2>5 DEF Shown
    <3> QED
      BY <1>2, <1>4, <2>3, <3>1 DEF True, GetReal, IsNull, V
  <2>6. CASE c = V("integer", h \div 2)
    <3>1. value = c
      BY <2>6, PlainCell DEF V
    <3>2. 2 * Rounded(h \div 2) = h
      <4>1. PICK n \in Int : h = 2 * n /\ Rounded(n) = n
        BY <1>5, HalvesAre
      <4>2. h \div 2 = n
        BY <4>1
      <4> QED
        BY <4>1, <4>2
    <3> QED
      BY <1>2, <1>4, <2>3, <2>6, <3>1, <3>2 DEF True, GetReal, IsNull, V
  <2>7. CASE affinity = "text" /\ c.kind = "numeral"
    <3>1. value.kind = "numeral"
      BY <2>7, PlainCell
    <3> QED
      BY <1>2, <1>4, <2>7, <3>1 DEF True, GetReal, IsNull, Declared, V
  <2> QED
    BY <2>4, <2>5, <2>6, <2>7
<1>6. CASE h % 2 = 1
  <2>1. b.kind = "real" /\ b.number % 2 = 1 /\ b = V("real", b.number)
    BY <1>1, <1>2, <1>6, SentIs, ParsedIsSane DEF Shown, Sane, V
  <2>2. c = b \/ (affinity = "text" /\ c.kind = "numeral")
    BY <2>1 DEF Shown, Bound, Stored, AsInteger, V, JourneyInv, Affinities
  <2>3. CASE c = b
    <3>1. value.kind = "real"
      BY <2>1, <2>3, RealCell
    <3>2. value \in Expected
      <4>1. CASE route = "local"
        BY <1>1, <1>2, <2>3, <4>1, SentIs DEF Expected, Shown, V
      <4>2. CASE route # "local"
        BY <1>1, <1>2, <2>3, <4>2, SentIs DEF Expected, Shown, V
      <4> QED
        BY <4>1, <4>2
    <3> QED
      BY <1>4, <3>1, <3>2 DEF True, GetReal, IsNull
  <2>4. CASE affinity = "text" /\ c.kind = "numeral"
    <3>1. value.kind = "numeral"
      BY <2>4, PlainCell
    <3> QED
      BY <1>2, <1>4, <2>4, <3>1 DEF True, GetReal, IsNull, Declared, V
  <2> QED
    BY <2>2, <2>3, <2>4
<1> QED
  BY <1>3, <1>5, <1>6

(* A number that is not finite reads as NULL, or as text in a text column. *)
LEMMA ShownNonFinite ==
  ASSUME JourneyInv, NEW b, NEW c, Shown(b, c), NonFinite
  PROVE  True(value)
<1>1. Sane(origin) /\ Accepted = origin
  BY SentIs DEF Shown, NonFinite
<1>2. b = Nothing \/ b = origin
  BY <1>1, SentIs DEF Shown, NonFinite
<1>3. c.kind \in {"null", "word"}
  <2>1. CASE b = Nothing
    BY <2>1 DEF Shown, Bound, Stored, Nothing, V
  <2>2. CASE b = origin
    <3>1. b.kind \in {"nan", "infinite"}
      BY <2>2 DEF NonFinite
    <3>2. c = Stored(Bound(b), affinity)
      BY <3>1 DEF Shown
    <3>3. CASE b.kind = "nan"
      BY <3>2, <3>3 DEF Bound, Stored, Nothing, V
    <3>4. CASE b.kind = "infinite"
      <4>1. Bound(b) = b
        BY <3>4 DEF Bound
      <4> QED
        BY <3>2, <3>4, <4>1 DEF Shown, Stored, V
    <3> QED
      BY <3>1, <3>3, <3>4
  <2> QED
    BY <1>2, <2>1, <2>2
<1>4. value.kind \in {"null", "word"}
  BY <1>3, PlainCell
<1> QED
  BY <1>4 DEF True, Own, NonFinite, GetReal

(* Text and bytes are never converted but by a numeric column. *)
LEMMA ShownPlain ==
  ASSUME JourneyInv, NEW b, NEW c, Shown(b, c),
         origin.kind \in {"null", "numeral", "word", "blob"}
  PROVE  True(value)
<1>1. Sane(origin) /\ b = origin
  BY SentIs DEF Shown
<1>2. Expected = {origin}
  BY DEF Expected
<1>3. c = origin \/ (origin.kind = "numeral" /\ affinity \in {"numeric", "real"}
                    /\ c.kind \in {"integer", "real"})
  BY <1>1 DEF Shown, Bound, Stored, AsInteger, V, JourneyInv, Affinities
<1>4. CASE c = origin
  <2>1. value = origin
    BY <1>4, PlainCell
  <2> QED
    BY <1>1, <1>2, <2>1, Widths DEF True, Own, GetText, GetBlob, IsNull, Sane, Nothing, V
<1>5. CASE origin.kind = "numeral" /\ affinity \in {"numeric", "real"}
           /\ c.kind \in {"integer", "real"}
  <2>1. value.kind \in {"integer", "real"}
    BY <1>5, PlainCell, RealCell
  <2> QED
    BY <1>5, <2>1 DEF True, Own, GetText, IsNull, Declared
<1> QED
  BY <1>3, <1>4, <1>5

LEMMA RowIsTrue ==
  ASSUME JourneyInv, hop = "row"
  PROVE  True(value)
<1>1. PICK b, c : Shown(b, c)
  BY SomeCell
<1>2. origin.kind \in {"null", "bool", "integer", "unsigned", "real", "nan", "infinite",
                       "numeral", "word", "blob"}
  BY <1>1, SentIs DEF Shown, Sane, Kinds, Sent, Planted, V
<1> QED
  BY <1>1, <1>2, ShownBool, ShownInteger, ShownReal, ShownNonFinite, ShownPlain DEF NonFinite

(* Whatever column, route and rebuilds a value went through, the getter of *)
(* its own type gives it back or an error, never another value, for        *)
(* integers and reals of any width; unsigned integers above i64::MAX are   *)
(* the exception.                                                          *)
THEOREM NothingIsAltered == Spec => []NothingAltered
<1>1. JourneyInv => NothingAltered
  BY RowIsTrue DEF True, NothingAltered
<1> QED
  BY <1>1, JourneyHolds, PTL

-----------------------------------------------------------------------------
(* Why a value that SQLite and JSON can carry does not arrive. *)
FailedInv ==
  hop = "failed" /\ Sound =>
    (value.kind = "abort" /\ origin = V("blob", -1)) \/ route = "supabase"

LEMMA GivenIsAccepted ==
  ASSUME NEW v \in Given
  PROVE  ToParameter(v) # Error
<1>1. v.kind # "object" /\ v.kind # "error"
  BY DEF Given, Numbers, Nothing, Truth, V
<1>2. v.kind = "blob" => v.number <= MaxByte
  BY Widths DEF Given, Numbers, Nothing, Truth, V, Bytes
<1>3. v.kind = "blob" => v.number \in Int
  BY Widths DEF Given, Numbers, Nothing, Truth, V, Bytes
<1> QED
  BY <1>1, <1>2, <1>3, Widths DEF ToParameter, Error, V

(* A stored value that can not be read was no finite value of the caller's. *)
LEMMA UnreadableKept ==
  ASSUME JourneyInv, NEW s, Kept(s), Sane(s)
  PROVE  /\ s.kind \in {"infinite", "bytes"} => ~Sound
         /\ s = V("blob", -1) => origin = V("blob", -1)
<1>1. CASE origin = V("bytes", 0) /\ s = origin
  <2>1. origin \notin Given
    BY <1>1 DEF Given, Numbers, Nothing, Truth, V
  <2> QED
    BY <1>1, <2>1 DEF Sound, V
<1>2. CASE \E b : Sane(b) /\ Sent(b) /\ s = Stored(Bound(b), affinity)
  <2>1. PICK b : Sane(b) /\ Sent(b) /\ s = Stored(Bound(b), affinity)
    BY <1>2
  <2>2. s.kind \in {"infinite", "bytes", "blob"} => s = b
    <3>1. PICK x : x = Bound(b)
      OBVIOUS
    <3>2. s = Stored(x, affinity)
      BY <2>1, <3>1
    <3>3. s.kind \in {"infinite", "bytes", "blob"} => s = x
      BY <3>2 DEF Stored, AsInteger, V
    <3>4. x.kind \in {"infinite", "bytes", "blob"} => x = b
      BY <3>1 DEF Bound, Nothing, V
    <3> QED
      BY <3>3, <3>4
  <2>3. b.kind \in {"infinite", "bytes"} => ~Sound
    <3>1. b.kind # "bytes"
      <4>1. Accepted.kind # "bytes"
        BY <2>1, AcceptedIsSane DEF Sent, Accepted, JourneyInv
      <4> QED
        BY <2>1, <4>1, ParsedKind DEF Sent, Nothing, V
    <3>2. b.kind = "infinite" => origin.kind = "infinite"
      BY <2>1, SentIs, ParsedKind DEF Nothing, V
    <3> QED
      BY <3>1, <3>2 DEF Sound, NonFinite
  <2>4. b = V("blob", -1) => origin = V("blob", -1)
    BY <2>1, SentIs, ParsedKind DEF Nothing, V
  <2> QED
    BY <2>2, <2>3, <2>4 DEF V
<1> QED
  BY <1>1, <1>2 DEF Kept

LEMMA StepFailed == JourneyInv /\ FailedInv /\ [Next]_vars => FailedInv'
<1> SUFFICES ASSUME JourneyInv, FailedInv, [Next]_vars, hop' = "failed", Sound', route' # "supabase"
             PROVE  value'.kind = "abort" /\ origin' = V("blob", -1)
  BY DEF FailedInv
<1>1. origin' = origin /\ route' = route /\ Sound
  BY DEF Next, Accept, Send, Store, Copy, Read, vars, Sound, NonFinite, Wrapped
<1>2. CASE Accept
  <2>1. Sane(Accepted) /\ value = origin /\ hop = "given"
    BY <1>1, <1>2, GivenIsAccepted, AcceptedIsSane DEF Accept, Accepted, Sound, JourneyInv
  <2>2. Become("parameter", Accepted)
    BY <1>2, <2>1 DEF Accept, Accepted
  <2> QED
    BY <2>1, <2>2, Arrives
<1>3. CASE Send
  <2>1. Sane(value) /\ route \in {"local", "neon"}
    BY <1>1, <1>3 DEF Send, JourneyInv
  <2>2. PICK v : Become("bound", v) /\ (v = value \/ v \in Crossed(value))
    BY <1>3, <2>1 DEF Send
  <2>3. Sane(v)
    <3>1. Sane(Nothing)
      BY Widths DEF Sane, Kinds, Nothing, V
    <3> QED
      BY <2>1, <2>2, <3>1, CrossedIs, ParsedIsSane
  <2> QED
    BY <2>2, <2>3, Arrives
<1>4. CASE Store
  <2>1. Sane(value) /\ affinity' \in Affinities
    BY <1>4 DEF Store, JourneyInv
  <2>2. Sane(Stored(Bound(value), affinity'))
    BY <2>1, StoredIsSane
  <2> QED
    BY <1>4, <2>2, Arrives DEF Store
<1>5. CASE Copy
  <2>1. Sane(value) /\ Kept(value)
    BY <1>5 DEF Copy, JourneyInv
  <2> QED
    BY <1>1, <1>5, <2>1, CopyKeeps, UnreadableKept DEF V
<1>6. CASE Read
  <2>1. route # "supabase"
    BY <1>1
  <2>2. PICK cell \in Readable \cap {Error, V("abort", 0)} : Become("failed", cell)
    <3>1. ASSUME NEW cell, NEW names, NEW at, NEW listed, NEW received,
                 cell \in Readable \ {Error, V("abort", 0)},
                 received \in (IF route = "local" THEN {cell} ELSE Crossed(cell)),
                 ReadRow(received, names, at, listed)
          PROVE  FALSE
      <4>1. Become("row", received)
        BY <2>1, <3>1 DEF ReadRow, Taken
      <4>2. Sane(cell)
        BY <3>1 DEF Readable, Cells, JourneyInv, V
      <4>3. Sane(received)
        <5>1. Sane(Nothing)
          BY Widths DEF Sane, Kinds, Nothing, V
        <5> QED
          BY <3>1, <4>2, <5>1, CrossedIs, ParsedIsSane
      <4> QED
        BY <4>1, <4>3, Arrives
    <3> QED
      BY <1>6, <3>1 DEF Read
  <2>3. hop = "stored" /\ Sane(value) /\ Kept(value)
    BY <2>2 DEF Readable, JourneyInv, Sane, Kinds, Error, V
  <2>4. value.kind \in {"infinite", "bytes"} \/ (value = V("blob", -1) /\ cell = V("abort", 0))
    BY <2>2, <2>3 DEF Readable, Cells, Sane, Kinds, Error, V
  <2> QED
    BY <1>1, <2>2, <2>3, <2>4, UnreadableKept DEF Become, V
<1>7. CASE UNCHANGED vars
  BY <1>1, <1>7 DEF vars, FailedInv
<1> QED
  BY <1>2, <1>3, <1>4, <1>5, <1>6, <1>7 DEF Next

(* In a column declared for its type, or read as it was sent, a finite     *)
(* value is always read back, and on the way it fails only where slices of *)
(* empty blobs are undefined or Supabase refuses: for integers and reals   *)
(* of any width and any number of rebuilds.                                *)
THEOREM ValuesReadBack == Spec => []ReadsBack
<1>1. Init => FailedInv
  BY DEF Init, FailedInv
<1>2. JourneyInv /\ FailedInv => ReadsBack
  BY RowIsTrue DEF True, ReadsBack, FailedInv, Sound
<1> QED
  BY <1>1, <1>2, StepFailed, JourneyHolds, PTL DEF Spec

-----------------------------------------------------------------------------
(* Looking up a cell by name or by position *)
List(names, listed) == IF listed THEN names ELSE <<>>
Got == RowOf(row.names, Beside(value, row.at), List(row.names, row.listed))
RowInv ==
  hop = "row" =>
    /\ row.names \in Columns \X Columns /\ row.at \in 1 .. 2 /\ row.listed \in BOOLEAN
    /\ Taken(row.names, Beside(value, row.at), List(row.names, row.listed))
    /\ row.columns = Got.columns /\ row.values = Got.values

LEMMA StepRow == JourneyInv /\ RowInv /\ [Next]_vars => RowInv'
<1> SUFFICES ASSUME JourneyInv, RowInv, [Next]_vars, hop' = "row" PROVE RowInv'
  BY DEF RowInv
<1>1. CASE Read
  <2>1. PICK cell \in Readable \ {Error, V("abort", 0)}, names \in Columns \X Columns,
             at \in 1 .. 2, listed \in BOOLEAN :
          \E received \in (IF route = "local" THEN {cell} ELSE Crossed(cell)) :
            RowTaken(received, names, at, listed)
    BY <1>1, ReadGives
  <2>2. PICK received : RowTaken(received, names, at, listed)
    BY <2>1
  <2>3. value' = received /\ row'.names = names /\ row'.at = at /\ row'.listed = listed
    BY <2>2 DEF RowTaken, Become
  <2>4. route' = route
    BY <1>1 DEF Read
  <2>5. Taken(row.names, Beside(value, row.at), List(row.names, row.listed))'
    BY <2>2, <2>3, <2>4 DEF RowTaken, Taken, List
  <2>6. (row.columns = Got.columns /\ row.values = Got.values)'
    BY <2>2, <2>3, <2>4 DEF RowTaken, RowOf, List, Got
  <2> QED
    BY <2>3, <2>5, <2>6 DEF RowInv
<1>2. CASE Accept \/ Send \/ Store \/ Copy
  BY <1>2 DEF Accept, Send, Store, Copy, Become
<1>3. CASE UNCHANGED vars
  <2>1. RowInv' <=> RowInv
    BY <1>3 DEF vars, RowInv, Got, Taken, RowOf
  <2> QED
    BY <2>1
<1> QED
  BY <1>1, <1>2, <1>3 DEF Next

LEMMA TwoNames ==
  ASSUME NEW names \in Columns \X Columns
  PROVE  /\ DOMAIN names = 1 .. 2 /\ Len(names) = 2 /\ names # <<>>
         /\ names[1] \in Int /\ names[2] \in Int
         /\ ToSet(names) = {names[1], names[2]}
<1>1. PICK m \in Columns, n \in Columns : names = <<m, n>>
  OBVIOUS
<1>2. DOMAIN names = 1 .. 2 /\ Len(names) = 2
  BY <1>1
<1>3. ToSet(names) = {names[1], names[2]}
  BY <1>2 DEF ToSet
<1> QED
  BY <1>1, <1>2, <1>3, ValuesAssumption

(* The first of two. *)
LEMMA FirstOfTwo ==
  ASSUME NEW s, DOMAIN s = 1 .. 2, NEW x, \E i \in 1 .. 2 : s[i] = x
  PROVE  /\ Min({i \in DOMAIN s : s[i] = x}) = IF s[1] = x THEN 1 ELSE 2
         /\ Position(s, x) = IF s[1] = x THEN 1 ELSE 2
<1> DEFINE f == IF s[1] = x THEN 1 ELSE 2
<1>1. /\ f \in {i \in DOMAIN s : s[i] = x}
      /\ \A y \in {i \in DOMAIN s : s[i] = x} : f <= y
      /\ \A j \in 1 .. f - 1 : s[j] # x
  OBVIOUS
<1>2. \A z \in {i \in DOMAIN s : s[i] = x} :
        (\A y \in {i \in DOMAIN s : s[i] = x} : z <= y) => z = f
  BY <1>1
<1>3. \A i \in DOMAIN s : s[i] = x /\ (\A j \in 1 .. i - 1 : s[j] # x) => i = f
  BY <1>1
<1>4. Min({i \in DOMAIN s : s[i] = x}) = f
  BY <1>1, <1>2 DEF Min
<1>5. Position(s, x) = f
  BY <1>1, <1>3 DEF Position
<1> QED
  BY <1>4, <1>5

LEMMA LastOfTwo ==
  ASSUME NEW s, DOMAIN s = 1 .. 2, Len(s) = 2, s[1] # s[2], NEW i \in 1 .. 2
  PROVE  LastPosition(s, s[i]) = i
<1>1. \A j \in i + 1 .. Len(s) : s[j] # s[i]
  OBVIOUS
<1>2. \A k \in DOMAIN s : s[k] = s[i] => k = i
  OBVIOUS
<1> QED
  BY <1>1, <1>2 DEF LastPosition

LEMMA OrderOfTwo ==
  ASSUME NEW a \in Int, NEW b \in Int, a # b
  PROVE  LET s == InOrder({a, b})
         IN  /\ DOMAIN s = 1 .. 2
             /\ (s[1] = a /\ s[2] = b) \/ (s[1] = b /\ s[2] = a)
<1>1. Cardinality({a, b}) = 2
  <2>1. {a, b} = {a} \cup {b} /\ b \notin {a}
    OBVIOUS
  <2>2. IsFiniteSet({a}) /\ Cardinality({a}) = 1
    BY FS_Singleton
  <2> QED
    BY <2>1, <2>2, FS_AddElement
<1>2. \E s \in [1 .. 2 -> {a, b}] : \A i, j \in DOMAIN s : i < j => s[i] < s[j]
  <2>1. CASE a < b
    <3> WITNESS [i \in 1 .. 2 |-> IF i = 1 THEN a ELSE b] \in [1 .. 2 -> {a, b}]
    <3> QED
      BY <2>1
  <2>2. CASE b < a
    <3> WITNESS [i \in 1 .. 2 |-> IF i = 1 THEN b ELSE a] \in [1 .. 2 -> {a, b}]
    <3> QED
      BY <2>2
  <2> QED
    BY <2>1, <2>2
<1>3. InOrder({a, b}) \in [1 .. 2 -> {a, b}]
      /\ \A i, j \in DOMAIN InOrder({a, b}) : i < j => InOrder({a, b})[i] < InOrder({a, b})[j]
  BY <1>1, <1>2 DEF InOrder
<1> QED
  BY <1>3

(* Without equal names a row has every cell under its own name; with the   *)
(* columns listed, in their order.                                         *)
LEMMA ObjectKeeps ==
  ASSUME NEW names \in Columns \X Columns, names[1] # names[2],
         NEW cells, DOMAIN cells = 1 .. 2, cells = [i \in 1 .. 2 |-> cells[i]],
         NEW listed \in BOOLEAN
  PROVE  LET r == ObjectRow(Object(names, cells), List(names, listed))
         IN  /\ DOMAIN r.columns = 1 .. 2
             /\ \A i \in 1 .. 2 : \E j \in 1 .. 2 : r.columns[j] = names[i]
             /\ \A i, j \in 1 .. 2 : r.columns[j] = names[i] => r.values[j] = cells[i]
             /\ listed => r.columns = names /\ r.values = cells
<1> DEFINE object == Object(names, cells)
           columns == IF listed THEN names ELSE InOrder({names[1], names[2]})
<1>1. /\ DOMAIN names = 1 .. 2 /\ Len(names) = 2 /\ names # <<>>
      /\ names[1] \in Int /\ names[2] \in Int /\ ToSet(names) = {names[1], names[2]}
  BY TwoNames
<1>2. DOMAIN object = {names[1], names[2]} /\ \A i \in 1 .. 2 : object[names[i]] = cells[i]
  <2>1. \A i \in 1 .. 2 : LastPosition(names, names[i]) = i
    BY <1>1, LastOfTwo
  <2> QED
    BY <1>1, <2>1 DEF Object
<1>3. ObjectRow(object, List(names, listed)) =
        [columns |-> columns, values |-> [i \in DOMAIN columns |-> object[columns[i]]]]
  BY <1>1, <1>2 DEF ObjectRow, List
<1>4. /\ DOMAIN columns = 1 .. 2
      /\ \/ columns[1] = names[1] /\ columns[2] = names[2]
         \/ columns[1] = names[2] /\ columns[2] = names[1]
  BY <1>1, OrderOfTwo
<1>5. listed => columns = names /\ [i \in DOMAIN columns |-> object[columns[i]]] = cells
  BY <1>1, <1>2
<1> HIDE DEF object, columns
<1> QED
  BY <1>2, <1>3, <1>4, <1>5 DEF object

LEMMA RowFinds ==
  ASSUME JourneyInv, RowInv, hop = "row"
  PROVE  LookupTrue
<1> DEFINE names == row.names
           at == row.at
           cells == Beside(value, at)
           first == Min({i \in DOMAIN names : names[i] = names[at]})
<1>0. route \in {"local", "neon", "supabase"}
  BY DEF JourneyInv
<1>1. names \in Columns \X Columns /\ at \in 1 .. 2 /\ row.listed \in BOOLEAN
  BY DEF RowInv
<1>2. DOMAIN names = 1 .. 2 /\ names # <<>>
  BY <1>1, TwoNames
<1>3. DOMAIN cells = 1 .. 2 /\ cells = [i \in 1 .. 2 |-> cells[i]]
  BY DEF Beside
<1>4. /\ first \in 1 .. 2 /\ names[first] = names[at] /\ Position(names, names[at]) = first
      /\ names[1] # names[2] => first = at
  <2>1. \E i \in 1 .. 2 : names[i] = names[at]
    BY <1>1
  <2>2. /\ first = IF names[1] = names[at] THEN 1 ELSE 2
        /\ Position(names, names[at]) = IF names[1] = names[at] THEN 1 ELSE 2
    <3> HIDE DEF names, at
    <3> QED
      BY <1>2, <2>1, FirstOfTwo
  <2> HIDE DEF names, at, first
  <2>3. at = 1 \/ at = 2
    BY <1>1
  <2> QED
    BY <1>2, <2>2, <2>3
<1>5. row.columns = Got.columns /\ row.values = Got.values
  BY DEF RowInv
<1>6. CASE route = "local"
  <2>1. Got = [columns |-> names, values |-> cells]
    BY <1>6 DEF Got, RowOf
  <2>2. row.columns = names /\ row.values = cells
    BY <1>5, <2>1
  <2> QED
    BY <1>4, <2>2 DEF LookupTrue
<1>7. CASE route # "local" /\ Distinct(names)
  <2>1. names[1] # names[2]
    BY <1>2, <1>7 DEF Distinct
  <2>2. Got = ObjectRow(Object(names, cells), List(names, row.listed))
    BY <1>7 DEF Got, RowOf
  <2>3. /\ DOMAIN row.columns = 1 .. 2
        /\ \E j \in 1 .. 2 : row.columns[j] = names[at]
        /\ \A j \in 1 .. 2 : row.columns[j] = names[at] => row.values[j] = cells[at]
        /\ row.listed => row.columns = names /\ row.values = cells
    <3> HIDE DEF cells, names, at
    <3> QED
      BY <1>1, <1>3, <1>5, <2>1, <2>2, ObjectKeeps
  <2>4. /\ Position(row.columns, names[at]) \in 1 .. 2
        /\ row.columns[Position(row.columns, names[at])] = names[at]
    <3>1. PICK f : f = IF row.columns[1] = names[at] THEN 1 ELSE 2
      OBVIOUS
    <3>2. Position(row.columns, names[at]) = f
      <4> HIDE DEF names, at
      <4> QED
        BY <2>3, <3>1, FirstOfTwo
    <3> QED
      BY <2>3, <3>1, <3>2
  <2>5. row.values[Position(row.columns, names[at])] = cells[first]
    BY <1>4, <2>1, <2>3, <2>4
  <2>6. route = "supabase" => row.listed
    BY <1>2 DEF RowInv, Taken, SupabaseTakes, List
  <2>7. row.values[Position(row.columns, names[at])] = cells[first]
        /\ (route # "neon" \/ row.listed => row.columns = names /\ row.values = cells)
    BY <1>7, <2>3, <2>5, <2>6, <1>0
  <2> QED
    BY <2>7 DEF LookupTrue
<1>8. CASE route = "supabase"
  <2>1. Distinct(names)
    BY <1>8 DEF RowInv, Taken, SupabaseTakes, List
  <2> QED
    BY <1>7, <1>8, <2>1
<1>9. CASE route = "neon" /\ ~Distinct(names)
  BY <1>9 DEF LookupTrue
<1> QED
  BY <1>0, <1>6, <1>7, <1>8, <1>9

(* A name gives the cell of the first column that has it, a position that  *)
(* of the column at it, on every route and for any column names; the       *)
(* exceptions of Neon rows are the property's.                             *)
THEOREM LookupsFind == Spec => []LookupTrue
<1>1. Init => RowInv
  BY DEF Init, RowInv
<1>2. JourneyInv /\ RowInv => LookupTrue
  BY RowFinds DEF LookupTrue
<1> QED
  BY <1>1, <1>2, StepRow, JourneyHolds, PTL DEF Spec
=============================================================================
