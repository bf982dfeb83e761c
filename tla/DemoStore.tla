------------------------------ MODULE DemoStore ------------------------------
(***************************************************************************)
(* internal/database/demo: Browse over the rows it keeps in memory.  Every *)
(* table has a numeric primary key in its first column.                    *)
(***************************************************************************)
EXTENDS Rows

HasDemoKey(t) ==
    \E i \in 1..Len(t.statistics) :
        /\ t.statistics[i].column = t.columns[1]
        /\ \A j \in 1..Len(t.statistics) : t.statistics[j].index = "PRIMARY" <=> i = j

Compare(v, w) ==
    CASE v = Null /\ w = Null -> 0
      [] v = Null /\ w # Null -> -1
      [] v # Null /\ w = Null -> 1
      [] OTHER -> IF v < w THEN -1 ELSE IF v > w THEN 1 ELSE 0

(* Every filter but is-null passes over NULL. *)
Passes(v, f) ==
    IF f.op = "is-null" THEN v = Null
    ELSE IF f.op = "not-null" THEN v # Null
    ELSE IF f.op = "contains" THEN v # Null /\ <<f.value, v>> \in Within
    ELSE /\ v # Null
         /\ LET cmp == Compare(v, f.value)
            IN  CASE f.op = "eq" -> cmp = 0
                  [] f.op = "ne" -> cmp # 0
                  [] f.op = "gt" -> cmp > 0
                  [] f.op = "gte" -> cmp >= 0
                  [] f.op = "lt" -> cmp < 0
                  [] f.op = "lte" -> cmp =< 0

Filtered(t, r) ==
    {i \in DOMAIN t.rows : r.filter = Nothing \/ Passes(t.rows[i][r.filter.column], r.filter)}

SortColumn(t, r) == IF r.sort = Nothing THEN t.columns[1] ELSE r.sort

(* Seeded fault: ties keep the order of the table in either direction. *)
AheadAscending(t, r, i, j) ==
    LET cmp == Compare(t.rows[i][SortColumn(t, r)], t.rows[j][SortColumn(t, r)])
        tie == Compare(t.rows[i][t.columns[1]], t.rows[j][t.columns[1]])
    IN  IF cmp = 0 THEN tie < 0 ELSE IF r.desc THEN cmp > 0 ELSE cmp < 0

(* The order of the sort: the column, then the first column. *)
Ahead(t, r, i, j) ==
    LET cmp == Compare(t.rows[i][SortColumn(t, r)], t.rows[j][SortColumn(t, r)])
        tie == Compare(t.rows[i][t.columns[1]], t.rows[j][t.columns[1]])
        c == IF cmp = 0 THEN tie ELSE cmp
    IN  IF r.desc THEN c > 0 ELSE c < 0

(* SliceStable: rows that compare equal stay in the order of the table. *)
Sorted(t, r) ==
    CHOOSE o \in [1..Cardinality(Filtered(t, r)) -> Filtered(t, r)] :
        \A m, n \in DOMAIN o : m < n => \/ Ahead(t, r, o[m], o[n])
                                        \/ /\ ~Ahead(t, r, o[n], o[m])
                                           /\ o[m] < o[n]

Lesser(m, n) == IF m =< n THEN m ELSE n

DemoBrowse(t, r) ==
    LET rows == Sorted(t, r)
        start == Lesser(r.offset, Len(rows))
        end == start + Lesser(r.limit, Len(rows) - start)
    IN  {[rows |-> SubSeq(rows, start + 1, end), more |-> end < Len(rows)]}
=============================================================================
