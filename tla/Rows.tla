-------------------------------- MODULE Rows --------------------------------
(***************************************************************************)
(* internal/database: tables, rows and browse requests, as far as the      *)
(* order and the selection of rows depend on them.  A value is a number or *)
(* Null: what matters is whether values are equal, ordered or contained in *)
(* one another, which is the same for numbers and for text.  One filter    *)
(* stands for the list that a request joins by AND.                        *)
(***************************************************************************)
EXTENDS Integers, Sequences, FiniteSets

CONSTANTS
    Columns,        \* column names
    RowIds,         \* the rows of a table, in the order it keeps them
    Values,         \* values that are not NULL
    Within,         \* pairs of values, the first contained in the second
    MaxPage,        \* 1000
    Null, Nothing   \* the NULL of SQL; no column, no filter

ASSUME RowsAssumption ==
    /\ Values \subseteq Int /\ Null \notin Values
    /\ RowIds \subseteq Nat /\ IsFiniteSet(RowIds) /\ MaxPage \in Nat
    /\ Nothing \notin Columns /\ Within \subseteq Values \X Values

Row == [Columns -> Values \cup {Null}]

(* A part of an index, as information_schema lists them: those of an index one
   after another, a functional one without a column. *)
Part == [index : STRING, unique : BOOLEAN, column : Columns \cup {Nothing}]

Filter == [column : Columns, op : STRING, value : Values]

Ops == {"is-null", "not-null", "contains", "eq", "ne", "gt", "gte", "lt", "lte"}

Known(t) == {t.columns[i] : i \in 1..Len(t.columns)}

(* The checks that both stores make before they look at a row. *)
BadRequest(t, r) ==
    \/ r.limit \notin 1..MaxPage \/ r.offset < 0
    \/ r.sort \notin Known(t) \cup {Nothing}
    \/ r.filter # Nothing /\ (r.filter.column \notin Known(t) \/ r.filter.op \notin Ops)

(* What SQL makes of a comparison: one with NULL is not true. *)
Holds(v, f) ==
    CASE f.op = "is-null" -> v = Null
      [] f.op = "not-null" -> v # Null
      [] f.op = "contains" -> v # Null /\ <<f.value, v>> \in Within
      [] f.op = "eq" -> v # Null /\ v = f.value
      [] f.op = "ne" -> v # Null /\ v # f.value
      [] f.op = "gt" -> v # Null /\ v > f.value
      [] f.op = "gte" -> v # Null /\ v >= f.value
      [] f.op = "lt" -> v # Null /\ v < f.value
      [] f.op = "lte" -> v # Null /\ v =< f.value

Matching(t, r) ==
    {i \in DOMAIN t.rows : r.filter = Nothing \/ Holds(t.rows[i][r.filter.column], r.filter)}

(* NULL sorts first. *)
Less(v, w) == w # Null /\ (v = Null \/ v < w)
=============================================================================
