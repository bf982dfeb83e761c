----------------------------- MODULE MySQLStore -----------------------------
(***************************************************************************)
(* internal/database/mysql: which indexes Schema finds, what Browse asks   *)
(* the server for (browseSQL) and what it makes of the answer (collect).   *)
(* The server may return rows that ORDER BY does not tell apart in any     *)
(* order, and in another order the next time.                              *)
(***************************************************************************)
EXTENDS Rows, FiniteSetsExt

-----------------------------------------------------------------------------
(* Schema *)

(* An index begins where the name changes, and goes on while it does not. *)
Begins(t) ==
    {i \in 1..Len(t.statistics) :
        i = 1 \/ t.statistics[i - 1].index # t.statistics[i].index}

Parts(t, i) ==
    {j \in i..Len(t.statistics) :
        \A k \in i..j : t.statistics[k].index = t.statistics[i].index}

IndexAt(t, i) ==
    [unique  |-> t.statistics[i].unique,
     columns |-> [k \in 1..Cardinality(Parts(t, i)) |-> t.statistics[i + k - 1].column]]

-----------------------------------------------------------------------------
(* browseSQL *)

(* Seeded fault: rows that are NULL in a unique column count as different. *)
UsableIfUnique(t, x) ==
    /\ x.unique /\ x.columns # <<>>
    /\ \A i \in 1..Len(x.columns) : x.columns[i] \in Known(t)

(* An index by which no two rows are equal. *)
Usable(t, x) ==
    /\ x.unique /\ x.columns # <<>>
    /\ \A i \in 1..Len(x.columns) : x.columns[i] \in Known(t) \ t.nullable

(* The primary key, or else the first usable index. *)
SortKey(t) ==
    LET usable == {i \in Begins(t) : Usable(t, IndexAt(t, i))}
        primary == {i \in usable : t.statistics[i].index = "PRIMARY"}
    IN  IF primary # {} THEN IndexAt(t, Min(primary)).columns
        ELSE IF usable # {} THEN IndexAt(t, Min(usable)).columns ELSE <<>>

(* Otherwise the notice says that ties have no order. *)
Deterministic(t) == SortKey(t) # <<>>

(* ORDER BY: the sort column, then the key, or the first column without one. *)
OrderBy(t, r) ==
    (IF r.sort = Nothing THEN <<>> ELSE <<r.sort>>)
        \o (IF Deterministic(t) THEN SortKey(t) ELSE <<t.columns[1]>>)

(* The server compares the columns in turn, all in the same direction. *)
Before(t, r, i, j) ==
    \E k \in 1..Len(OrderBy(t, r)) :
        LET v(n) == t.rows[n][OrderBy(t, r)[k]]
        IN  /\ IF r.desc THEN Less(v(j), v(i)) ELSE Less(v(i), v(j))
            /\ \A m \in 1..(k - 1) :
                   t.rows[i][OrderBy(t, r)[m]] = t.rows[j][OrderBy(t, r)[m]]

Orders(t, r) ==
    LET chosen == Matching(t, r)
    IN  {o \in [1..Cardinality(chosen) -> chosen] :
            \A m, n \in DOMAIN o : m < n => o[m] # o[n] /\ ~Before(t, r, o[n], o[m])}

(* Seeded fault: no row beyond the page is asked for. *)
LimitOfPage(r) == r.limit

Limit(r) == r.limit + 1

(* LIMIT and OFFSET of the server. *)
Window(o, r) ==
    SubSeq(o, r.offset + 1,
           IF Len(o) =< r.offset + Limit(r) THEN Len(o) ELSE r.offset + Limit(r))

-----------------------------------------------------------------------------
(* collect stops at the first row beyond the limit. *)
Collected(rows, r) ==
    IF Len(rows) > r.limit THEN [rows |-> SubSeq(rows, 1, r.limit), more |-> TRUE]
                           ELSE [rows |-> rows, more |-> FALSE]

MySQLBrowse(t, r) == {Collected(Window(o, r), r) : o \in Orders(t, r)}
=============================================================================
