------------------------------- MODULE Paging -------------------------------
(***************************************************************************)
(* A reader who pages through a table with internal/app over either store, *)
(* while nobody changes the table: open-table, filter or sort shows the    *)
(* first page, next and prev turn it.                                      *)
(***************************************************************************)
EXTENDS MySQLStore, DemoStore

CONSTANTS
    Tables,         \* tables with their rows
    Requests        \* what a reader may ask for, on the first page

ASSUME TablesAssumption ==
    \A t \in Tables : /\ t.columns \in Seq(Columns) /\ t.columns # <<>>
                      /\ t.statistics \in Seq(Part)
                      /\ t.rows \in [RowIds -> Row]

ASSUME RequestsAssumption ==
    Requests \subseteq [filter : Filter \cup {Nothing}, sort : Columns \cup {Nothing},
                       desc : BOOLEAN, limit : Int, offset : {0}]

VARIABLES
    kind,           \* the store that is open
    table,          \* the table it has
    req,            \* Snapshot.Browse
    page,           \* Snapshot.Result
    read            \* history: the pages read where ties have an order, by offset

vars == <<kind, table, req, page, read>>

(* What a database guarantees of a table with these indexes: those of a primary
   key are never NULL, and rows that are equal in all columns of a unique index
   are NULL in one of them. *)
SoundIndex(t, x) ==
    LET parts == {i \in 1..Len(t.statistics) : t.statistics[i].index = x}
        over == {t.statistics[i].column : i \in parts}
    IN  /\ \A i, j \in parts : /\ t.statistics[i].unique = t.statistics[j].unique
                               /\ \A k \in i..j : k \in parts
        /\ \A i \in parts :
              /\ x = "PRIMARY" => t.statistics[i].unique /\ over \subseteq Known(t) \ t.nullable
              /\ t.statistics[i].unique /\ over \subseteq Known(t) =>
                    \A m, n \in DOMAIN t.rows :
                        m # n => \E c \in over : \/ t.rows[m][c] # t.rows[n][c]
                                                 \/ t.rows[m][c] = Null

Sound(t) ==
    /\ \A i \in DOMAIN t.rows, c \in Known(t) : t.rows[i][c] = Null => c \in t.nullable
    /\ \A k \in 1..Len(t.statistics) : SoundIndex(t, t.statistics[k].index)

Init ==
    /\ kind \in {"mysql", "demo"}
    /\ table \in {t \in Tables : Sound(t) /\ (kind = "demo" => HasDemoKey(t))}
    /\ req = Nothing /\ page = Nothing
    /\ read = <<>>

Answers(r) == IF kind = "mysql" THEN MySQLBrowse(table, r) ELSE DemoBrowse(table, r)

Show(r, pages) ==
    /\ req' = r
    /\ page' \in Answers(r)
    /\ read' = IF ~Deterministic(table) THEN <<>>
               ELSE [o \in {r.offset} \cup DOMAIN pages |->
                        IF o = r.offset THEN page'.rows ELSE pages[o]]
    /\ UNCHANGED <<kind, table>>

(* Bound: a reader makes one request, since the next one would start over. *)
Open ==
    /\ req = Nothing
    /\ \E r \in Requests : ~BadRequest(table, r) /\ Show(r, <<>>)

NextPage ==
    /\ page # Nothing /\ page.more
    /\ Show([req EXCEPT !.offset = @ + req.limit], read)

PrevPage ==
    /\ page # Nothing
    /\ Show([req EXCEPT !.offset = IF @ < req.limit THEN 0 ELSE @ - req.limit], read)

Next == Open \/ NextPage \/ PrevPage

Spec == Init /\ [][Next]_vars

-----------------------------------------------------------------------------
(* Properties *)

Elements(s) == {s[i] : i \in 1..Len(s)}

(***************************************************************************)
(* Paging through a table shows every row that matches exactly once, and   *)
(* a page that is turned back to is unchanged, unless the store has warned *)
(* that ties have no order (browseSQL, Browse).                            *)
(***************************************************************************)
EachRowOnce ==
    page # Nothing /\ Deterministic(table) =>
        /\ \A o, p \in DOMAIN read : o # p => Elements(read[o]) \cap Elements(read[p]) = {}
        /\ ~page.more =>
              UNION {Elements(read[o]) : o \in DOMAIN read} = Matching(table, req)

(***************************************************************************)
(* HasMore is said exactly when rows follow the page, which is full then.  *)
(***************************************************************************)
MoreIsExact ==
    page # Nothing =>
        LET seen == req.offset + Len(page.rows)
        IN  /\ page.more <=> seen < Cardinality(Matching(table, req))
            /\ page.more => Len(page.rows) = req.limit

(***************************************************************************)
(* The demo shows what MySQL would show of the same table: the same rows,  *)
(* in the same order, on the same page.                                    *)
(***************************************************************************)
DemoLikeMySQL ==
    kind = "demo" /\ page # Nothing => page \in MySQLBrowse(table, req)
=============================================================================
