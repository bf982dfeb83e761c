------------------------------ MODULE Viewport ------------------------------
(***************************************************************************)
(* internal/tui, model.go and view.go: where the cursor is in the table    *)
(* list, the result and the structure, and which part of each is drawn,    *)
(* while snapshots replace what is shown and the terminal is resized.      *)
(*                                                                         *)
(* A snapshot is reduced to what the layout depends on: the source         *)
(* (connection and database), the table, the page (offset and whether the  *)
(* rows are raw), the listed tables, the number of rows, the desired width *)
(* of each column (cacheWidths) and the texts of the structure, each as    *)
(* the number of lines it is cut into at each width (wrapSafe).  Indices   *)
(* start at 0, as in the code.  Modals keep the cursor as it is: what they *)
(* do to it when they are opened or submitted is a step that may be taken  *)
(* at any time.                                                            *)
(***************************************************************************)
EXTENDS Integers, Sequences, FiniteSetsExt

CONSTANTS
    Tables,     \* table names
    Searches,   \* search texts, each as the set of tables that it matches
    Screens,    \* terminal sizes
    Snapshots,  \* what the App may publish
    Nothing     \* no table

Text == [UNION {1..z.width : z \in Screens} -> Nat \ {0}]

StructureType == [columns : Seq(Text), indexes : Seq(Text), relations : Seq(Text)]

SnapshotType ==
    [source : Nat, table : Tables \cup {Nothing}, page : Nat, tables : Seq(Tables),
     rows : Nat, widths : Seq(Nat \ {0}), structure : StructureType]

(* What is assumed until the terminal has reported its size. *)
FirstScreen == [width |-> 100, height |-> 30]

ASSUME ScreenAssumption ==
    FirstScreen \in Screens /\ Screens \subseteq [width : Nat \ {0}, height : Nat \ {0}]

ASSUME SnapshotAssumption == Snapshots \subseteq SnapshotType

ASSUME SearchAssumption == Searches \subseteq SUBSET Tables /\ Tables \in Searches

VARIABLES
    m           \* the model, as far as the cursor and the layout go

Smaller(a, b) == IF a =< b THEN a ELSE b
Larger(a, b) == IF a =< b THEN b ELSE a

-----------------------------------------------------------------------------
(* The layout *)

(* On a narrow screen the focus decides whether the list or the grid is drawn. *)
SidebarWidth(u) ==
    IF u.screen.width < 64 THEN (IF u.focus = "tables" THEN u.screen.width ELSE 0)
    ELSE Smaller(28, Larger(20, u.screen.width \div 5))

BodyHeight(u) == Larger(1, u.screen.height - 6)

GridWidth(u) == Larger(1, u.screen.width - SidebarWidth(u))

(* The positions of the tables that the search matches, and the place of one of
   them in the list. *)
Listed(u) == {i \in DOMAIN u.snap.tables : u.snap.tables[i] \in u.search}

ListSize(u) == Cardinality(Listed(u))

Place(u, i) == Cardinality({j \in Listed(u) : j < i})

Columns(u) == Len(u.snap.widths)

(* No column is wider than the grid. *)
ColumnWidth(widths, grid, c) == Smaller(grid, widths[c + 1])

SpanWidth(widths, grid, start, end) ==
    SumFunction([c \in start..Smaller(end, Len(widths) - 1) |-> ColumnWidth(widths, grid, c)])

ColumnsWidth(u, start, end) == SpanWidth(u.snap.widths, GridWidth(u), start, end)

(* As many complete columns as fit, and at least one. *)
VisibleColumns(u) ==
    {c \in u.left..(Columns(u) - 1) :
        c = u.left \/ ColumnsWidth(u, u.left, c) =< GridWidth(u)}

(* A section without texts says so in a line. *)
TextLines(texts, w) ==
    IF texts = <<>> THEN 1 ELSE SumFunction([i \in DOMAIN texts |-> texts[i][w]])

(* Where there is room, a heading and a line for each column; otherwise its name
   and type, and its attributes indented below. *)
ColumnLines(columns, w) ==
    IF w >= 78 THEN 1 + Larger(1, Len(columns))
    ELSE Len(columns) + TextLines(columns, Larger(1, w - 2))

(* Three titles, of which two have a blank line above. *)
StructureHeight(s, w) ==
    5 + ColumnLines(s.columns, w) + TextLines(s.indexes, w) + TextLines(s.relations, w)

(* Also while the grid is not drawn: it is then one cell wide. *)
StructureLines(u) == StructureHeight(u.snap.structure, GridWidth(u))

LastStart(u) == Larger(0, StructureLines(u) - BodyHeight(u))

-----------------------------------------------------------------------------
(* clamp *)

Bound(n, length) == Larger(0, Smaller(n, length - 1))

(* The window of a list moves as little as needed to hold the cursor. *)
Follow(first, at, count, body) ==
    LET top == Larger(0, Smaller(first, Larger(0, count - body)))
    IN  IF at < top THEN at
        ELSE IF at >= top + body THEN at - body + 1 ELSE top

(* Columns leave on the left until the cursor fits, and come back while it does. *)
Leftmost(u, col) ==
    LET fits(l) == ColumnsWidth(u, l, col) =< GridWidth(u)
        left == Min({l \in Smaller(u.left, col)..col : l = col \/ fits(l)})
    IN  Min({l \in 0..left : \A k \in l..(left - 1) : fits(k)})

Clamp(u) ==
    LET table == Bound(u.table, ListSize(u))
        row == Bound(u.row, u.snap.rows)
        col == Bound(u.col, Columns(u))
    IN  [u EXCEPT !.table = table, !.row = row, !.col = col,
                  !.top = Follow(@, row, u.snap.rows, BodyHeight(u)),
                  !.tableTop = Follow(@, table, ListSize(u), BodyHeight(u)),
                  !.left = Leftmost(u, col),
                  !.structureTop =
                      IF u.tab = "structure"
                      THEN Larger(0, Smaller(@, LastStart(u)))
                      ELSE @]

-----------------------------------------------------------------------------
(* Messages that are not keys *)

Init ==
    \E s \in Snapshots :
        m = [snap |-> s, screen |-> FirstScreen, focus |-> "tables", tab |-> "data",
             row |-> 0, col |-> 0, top |-> 0, left |-> 0, table |-> 0, tableTop |-> 0,
             structureTop |-> 0, search |-> Tables]

(* Seeded fault: only the drawing looks at the new size. *)
Resized(u, z) == [u EXCEPT !.screen = z]

ResizedTo(u, z) == Clamp([u EXCEPT !.screen = z])

Resize == \E z \in Screens : m' = ResizedTo(m, z)

TableChanged(u, s) == s.source # u.snap.source \/ s.table # u.snap.table

(* Seeded fault: the search hides the table that is opened. *)
KeepSearch(u, s) == u.search

(* A search that the table on view does not match is given up; no text but
   the empty one matches the name of no table. *)
SearchFor(u, s) == IF s.table \in u.search THEN u.search ELSE Tables

(* The entry of the table on view, if it is listed. *)
AtTable(u) ==
    LET at == {i \in Listed(u) : u.snap.tables[i] = u.snap.table}
    IN  IF at = {} THEN u ELSE [u EXCEPT !.table = Place(u, Min(at))]

FromTop(u) ==
    [u EXCEPT !.row = 0, !.col = 0, !.top = 0, !.left = 0, !.structureTop = 0]

(* Seeded fault: the cursor stays where it was in the rows of before. *)
AcceptedAsIs(u, s) == [u EXCEPT !.snap = s]

(* What accept makes of a snapshot that is not stale. *)
Accepted(u, s) ==
    LET changed == TableChanged(u, s)
        v == [u EXCEPT !.snap = s, !.search = IF changed THEN SearchFor(u, s) ELSE @]
        w == IF changed THEN AtTable(v) ELSE v
    IN  Clamp(IF changed \/ s.page # u.snap.page THEN FromTop(w) ELSE w)

Accept == \E s \in Snapshots : m' = Accepted(m, s)

-----------------------------------------------------------------------------
(* Keys *)

(* Row by row, by half a screen or a screen, to the first or last. *)
Distances(u) ==
    LET half == Larger(1, BodyHeight(u) \div 2)
    IN  {1, -1, half, -half, BodyHeight(u), -BodyHeight(u), 2^28, -(2^28)}

Moved(u, n) ==
    IF u.focus = "tables" THEN [u EXCEPT !.table = @ + n]
    ELSE IF u.tab = "structure" THEN [u EXCEPT !.structureTop = @ + n]
    ELSE [u EXCEPT !.row = @ + n]

Move == \E n \in Distances(m) : m' = Clamp(Moved(m, n))

(* h and l need the focus, the horizontal wheel does not. *)
MoveColumn ==
    \E n \in {1, -1} : m' = Clamp([m EXCEPT !.col = @ + n])

(* The wheel moves what is under it, whatever has the focus. *)
Wheel ==
    \E n \in {3, -3} :
        \/ SidebarWidth(m) > 0 /\ m' = Clamp([m EXCEPT !.table = @ + n])
        \/ m.tab = "structure" /\ m' = Clamp([m EXCEPT !.structureTop = @ + n])
        \/ m.tab = "data" /\ m' = Clamp([m EXCEPT !.row = @ + n])

Other(focus) == IF focus = "tables" THEN "result" ELSE "tables"

SwitchFocus == m' = Clamp([m EXCEPT !.focus = Other(@)])

(* Of 1, 2 and a click on a label; to inspect a row shows the data first. *)
ShowTab ==
    \E t \in {"data", "structure"} : m' = Clamp([m EXCEPT !.tab = t, !.focus = "result"])

(* / in the table list, submitted; the empty text is a search, too. *)
Find ==
    \E q \in Searches :
        m' = Clamp([m EXCEPT !.search = q, !.table = 0, !.tableTop = 0])

(* Esc, and x in the table list. *)
ClearSearch == m' = Clamp([m EXCEPT !.search = Tables])

(* A table is opened from the list or by its foreign key, a query submitted:
   the data has the focus before its snapshot comes, and nothing is clamped. *)
ShowData == m' = [m EXCEPT !.focus = "result", !.tab = "data"]

OpenTable == m.focus = "tables" /\ m.table < ListSize(m) /\ ShowData

FollowForeignKey == m.snap.table # Nothing /\ m.row < m.snap.rows /\ ShowData

SubmitSQL == ShowData

(* A palette command moves the focus to where it applies. *)
PaletteFocus == \E f \in {"tables", "result"} : m' = [m EXCEPT !.focus = f]

-----------------------------------------------------------------------------
(* Clicks *)

ClickSidebar ==
    /\ SidebarWidth(m) > 0
    /\ \/ m' = [m EXCEPT !.focus = "tables"]
       \/ \E y \in 0..(BodyHeight(m) - 1) :
              /\ m.tableTop + y < ListSize(m)
              /\ m' = [m EXCEPT !.table = m.tableTop + y, !.focus = "result", !.tab = "data"]

GridDrawn(u) == SidebarWidth(u) < u.screen.width

(* Above the rows, beside the columns, or anywhere in another tab. *)
ClickBesideGrid ==
    /\ GridDrawn(m)
    /\ LET u == [m EXCEPT !.focus = "result"]
       IN  \/ m' = u
           \/ m.tab = "data" /\ m' = Clamp(u)

(* The edges of the header lead to the columns that are not drawn. *)
ClickEdge ==
    /\ GridDrawn(m) /\ m.tab = "data" /\ VisibleColumns(m) # {}
    /\ \E c \in {m.left - 1, Max(VisibleColumns(m)) + 1} :
          /\ c \in 0..(Columns(m) - 1)
          /\ m' = Clamp([m EXCEPT !.focus = "result", !.col = c])

(* A header is sorted by, what is above or below only names the column, and a
   cell becomes the cursor. *)
ClickColumn ==
    /\ GridDrawn(m) /\ m.tab = "data"
    /\ \E c \in VisibleColumns(m) :
          LET u == [m EXCEPT !.focus = "result", !.col = c]
          IN  \/ m' = u
              \/ m' = Clamp(u)
              \/ \E y \in 0..(BodyHeight(m) - 1) : m' = Clamp([u EXCEPT !.row = m.top + y])

-----------------------------------------------------------------------------
vars == <<m>>

Next ==
    \/ Resize \/ Accept
    \/ Move \/ MoveColumn \/ Wheel \/ SwitchFocus \/ ShowTab
    \/ Find \/ ClearSearch \/ OpenTable \/ FollowForeignKey \/ SubmitSQL \/ PaletteFocus
    \/ ClickSidebar \/ ClickBesideGrid \/ ClickEdge \/ ClickColumn

Spec == Init /\ [][Next]_vars

-----------------------------------------------------------------------------
(* Properties *)

ModelType ==
    [snap : Snapshots, screen : Screens, focus : {"tables", "result"},
     tab : {"data", "structure"}, row : Nat, col : Nat, top : Nat, left : Nat,
     table : Nat, tableTop : Nat, structureTop : Nat, search : Searches]

IndexOf(n, length) == n = 0 \/ n < length

(* The cursor is at a row, a column and a table that exist, where there are any:
   s, i, f and Enter index the columns, rows and tables with them after snapshots
   that may have fewer of each, and Go would panic (sort and openTable of
   model.go). *)
CursorInRange ==
    /\ m \in ModelType
    /\ IndexOf(m.row, m.snap.rows)
    /\ IndexOf(m.col, Columns(m))
    /\ IndexOf(m.table, ListSize(m))

(* A window holds the entry, and is blank below only where all are shown. *)
Holds(first, at, count, body) ==
    first =< at /\ at < first + body /\ first =< Larger(0, count - body)

RowShown == Holds(m.top, m.row, m.snap.rows, BodyHeight(m))

TableShown == Holds(m.tableTop, m.table, ListSize(m), BodyHeight(m))

ColumnShown == GridDrawn(m) /\ Columns(m) > 0 => m.col \in VisibleColumns(m)

(* The structure on the screen begins so far down that it ends above the bottom. *)
PastEnd(u) == u.tab = "structure" /\ GridDrawn(u) /\ u.structureTop > LastStart(u)

(* A narrow screen shows the list or the grid, and clamp counts the lines of the
   structure in the width it has then. *)
OnlyFocusMoves == m.screen.width < 64 /\ m' = [m EXCEPT !.focus = "result"]

(* What the keys act on is on the screen: the selected row, column and table are
   drawn, whichever of resize, focus, search, snapshot, click or wheel came last,
   though several of these steps return before clamp.  The structure may begin past
   its end only by a palette command that leads from the list of a narrow screen to
   the grid (updateModal of modal.go), and no step but the way back keeps it there. *)
SelectionShown ==
    /\ [](RowShown /\ TableShown /\ ColumnShown)
    /\ [][PastEnd(m') => OnlyFocusMoves]_vars

(* When another table comes on view, from this terminal or from another client,
   the list selects it wherever its source lists it: a search that hides it is
   given up, so that Enter reopens what is seen (accept of model.go). *)
SidebarFollows ==
    [][TableChanged(m, m'.snap) /\ (\E i \in DOMAIN m'.snap.tables : m'.snap.tables[i] = m'.snap.table)
         => \E i \in Listed(m') :
               m'.snap.tables[i] = m'.snap.table /\ m'.table = Place(m', i)]_vars
=============================================================================
