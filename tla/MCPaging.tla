------------------------------ MODULE MCPaging ------------------------------
(***************************************************************************)
(* Small instances of Paging: every table of three rows and two columns    *)
(* under each of a few sets of indexes, and one filter of each kind.       *)
(***************************************************************************)
EXTENDS Paging

CONSTANTS a, b

Index(name, unique, columns) ==
    [k \in 1..Len(columns) |-> [index |-> name, unique |-> unique, column |-> columns[k]]]

IndexLists ==
    {<<>>,
     Index("i", FALSE, <<b>>),
     Index("i", TRUE, <<b>>),
     Index("i", TRUE, <<b, a>>),
     Index("PRIMARY", TRUE, <<a>>),
     Index("i", TRUE, <<b>>) \o Index("PRIMARY", TRUE, <<a>>),
     Index("f", TRUE, <<Nothing>>) \o Index("i", TRUE, <<b>>)}

(* Rows are listed in the order of their numbers, which no store relies on. *)
Rank(row) == row[a] * 4 + (IF row[b] = Null THEN 0 ELSE row[b])

(* Three numbers, so that a key tells the rows apart, beside values with ties. *)
SomeRows == {row \in Row : row[a] # Null /\ row[b] # 3}

AllTables ==
    {t \in [columns : {<<a, b>>}, nullable : {{}, {b}}, statistics : IndexLists,
            rows : [RowIds -> SomeRows]] :
        \A i, j \in RowIds : i < j => Rank(t.rows[i]) =< Rank(t.rows[j])}

OneOf(column, op) == [column |-> column, op |-> op, value |-> 1]

SomeFilters == {OneOf(a, "gt")} \cup {OneOf(b, op) : op \in Ops}

(* Every order without a filter, every filter in one order, and no rows at all. *)
AllRequests ==
    [filter : {Nothing}, sort : {Nothing, a, b}, desc : BOOLEAN, limit : {1, 2}, offset : {0}]
    \cup [filter : SomeFilters, sort : {b}, desc : {TRUE}, limit : {1}, offset : {0}]
    \cup [filter : {Nothing}, sort : {b}, desc : {TRUE}, limit : {0}, offset : {0}]

Contained == {<<1, 1>>, <<2, 2>>, <<3, 3>>, <<1, 2>>}
=============================================================================
