---------------------------- MODULE MCViewport ----------------------------
EXTENDS Viewport

CONSTANTS ta, tb, tc

MCTables == {ta, tb, tc}

MCSearches == {{ta, tb, tc}, {tb, tc}, {}}

(* The first; of one cell; narrow; wide; wide enough for the structure in columns. *)
MCScreens ==
    {FirstScreen, [width |-> 1, height |-> 1], [width |-> 40, height |-> 8],
     [width |-> 64, height |-> 9], [width |-> 98, height |-> 8]}

(* A text of n letters, of one cell each. *)
Letters(n) ==
    [w \in UNION {1..z.width : z \in MCScreens} |-> Larger(1, (n + w - 1) \div w)]

(* The attributes of the columns, the indexes, the foreign keys. *)
Structure(columns, indexes, relations) ==
    [columns |-> columns, indexes |-> indexes, relations |-> relations]

NoStructure == Structure(<<>>, <<>>, <<>>)

View(source, table, page, tables, rows, widths, structure) ==
    [source |-> source, table |-> table, page |-> page, tables |-> tables, rows |-> rows,
     widths |-> widths, structure |-> structure]

Described == Structure(<<Letters(1), Letters(2)>>, <<>>, <<>>)

(* Not connected; connected, no table opened; a page and a shorter one; a raw
   result; another table after others were dropped; another source. *)
MCSnapshots ==
    {View(0, Nothing, 0, <<>>, 0, <<>>, NoStructure),
     View(1, Nothing, 0, <<ta, tb, tc>>, 0, <<>>, NoStructure),
     View(1, ta, 0, <<ta, tb, tc>>, 3, <<32, 48>>, Described),
     View(1, ta, 1, <<ta, tb, tc>>, 1, <<32, 48>>, Described),
     View(1, tc, 0, <<ta, tc>>, 2, <<32, 32>>, Described),
     View(1, ta, 2, <<ta, tb, tc>>, 3, <<12, 16, 32, 32>>, Described),
     View(2, tb, 0, <<tb>>, 3, <<32>>, Structure(<<Letters(1)>>, <<>>, <<Letters(9)>>))}
=============================================================================
