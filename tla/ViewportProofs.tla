--------------------------- MODULE ViewportProofs ---------------------------
(***************************************************************************)
(* Proofs about Viewport, for any snapshots, screens and searches: the     *)
(* cursor is always at an entry that exists, and the window of each list   *)
(* holds it.  For the columns and the structure this rests on sums, of     *)
(* widths and of lines: that a sum which is defined by recursion exists is *)
(* proved here, too.                                                       *)
(***************************************************************************)
EXTENDS Viewport, TLAPS, WellFoundedInduction, FiniteSetTheorems

(* The two windows that follow an entry of a list. *)
WindowsHold == RowShown /\ TableShown

(* The width of the grid when it is drawn: a narrow screen then has no list. *)
GridOf(z) ==
    Larger(1, z.width - (IF z.width < 64 THEN 0 ELSE Smaller(28, Larger(20, z.width \div 5))))

(* The selected column is among those that are drawn, or would be if the grid had
   the focus: to move the focus does not move the window. *)
Spans(u, grid) ==
    /\ u.left =< u.col /\ u.col < Columns(u)
    /\ u.col = u.left \/ SpanWidth(u.snap.widths, grid, u.left, u.col) =< grid

ColumnHeld == Columns(m) > 0 => Spans(m, GridOf(m.screen))

(* A wide screen draws the grid whatever has the focus, so that clamp counts the
   lines of the structure as they are drawn. *)
StructureHeld ==
    m.screen.width >= 64 /\ m.tab = "structure" => m.structureTop =< LastStart(m)

ViewportInvariant == CursorInRange /\ WindowsHold /\ ColumnHeld /\ StructureHeld

(* What is shown of every step. *)
Fits == ViewportInvariant' /\ (PastEnd(m') /\ m' # m => OnlyFocusMoves)

(* What clamp is given: a key, a click or the wheel may have left the cursor
   anywhere, and the structure at any line while it is on view. *)
LooseRecord ==
    [snap : Snapshots, screen : Screens, focus : {"tables", "result"},
     tab : {"data", "structure"}, row : Int, col : Int, top : Nat, left : Nat,
     table : Int, tableTop : Nat, structureTop : Int, search : Searches]

LooseType == {u \in LooseRecord : u.tab = "data" => u.structureTop \in Nat}

-----------------------------------------------------------------------------
(* The operators of the layout *)

(* One field at a time, for the steps that set several. *)
LEMMA SetField ==
  ASSUME NEW u \in LooseRecord
  PROVE  /\ \A n \in Int : [u EXCEPT !.row = n] \in LooseRecord
         /\ \A n \in Int : [u EXCEPT !.col = n] \in LooseRecord
         /\ \A n \in Int : [u EXCEPT !.table = n] \in LooseRecord
         /\ \A n \in Int : [u EXCEPT !.structureTop = n] \in LooseRecord
         /\ \A n \in Nat : [u EXCEPT !.top = n] \in LooseRecord
         /\ \A n \in Nat : [u EXCEPT !.left = n] \in LooseRecord
         /\ \A n \in Nat : [u EXCEPT !.tableTop = n] \in LooseRecord
         /\ \A s \in Snapshots : [u EXCEPT !.snap = s] \in LooseRecord
         /\ \A q \in Searches : [u EXCEPT !.search = q] \in LooseRecord
         /\ \A f \in {"tables", "result"} : [u EXCEPT !.focus = f] \in LooseRecord
         /\ \A t \in {"data", "structure"} : [u EXCEPT !.tab = t] \in LooseRecord
BY DEF LooseRecord

LEMMA FromTopTyped ==
  ASSUME NEW u \in LooseType
  PROVE  FromTop(u) \in LooseType
<1>1. u \in LooseRecord /\ 0 \in Int /\ 0 \in Nat BY DEF LooseType
<1>2. FromTop(u) \in LooseRecord BY <1>1, SetField, Zenon DEF FromTop
<1>3. FromTop(u).structureTop = 0 BY <1>1 DEF FromTop, LooseRecord
<1> QED BY <1>2, <1>3 DEF LooseType

LEMMA LeastNatural ==
  ASSUME NEW S \in SUBSET Nat, S # {}
  PROVE  Min(S) \in S /\ \A x \in S : Min(S) =< x
<1> DEFINE less == {p \in Nat \X Nat : p[1] < p[2]}
<1>1. IsWellFoundedOn(less, Nat) BY NatLessThanWellFounded DEF OpToRel
<1> HIDE DEF less
<1>2. PICK x \in S : \A y \in S : <<y, x>> \notin less BY <1>1, WFMin
<1>3. ASSUME NEW y \in S PROVE x =< y
  <2>1. <<y, x>> \notin {p \in Nat \X Nat : p[1] < p[2]} BY <1>2 DEF less
  <2>2. ~(y < x) BY <2>1
  <2> QED BY <2>2
<1> QED BY <1>3 DEF Min

LEMMA ListSizeTyped ==
  ASSUME NEW u \in LooseType
  PROVE  /\ ListSize(u) \in Nat
         /\ IsFiniteSet(Listed(u))
         /\ Listed(u) \subseteq Nat
<1>1. u.snap.tables \in Seq(Tables) BY SnapshotAssumption DEF LooseType, LooseRecord, SnapshotType
<1>2. DOMAIN u.snap.tables = 1..Len(u.snap.tables) /\ Len(u.snap.tables) \in Nat BY <1>1
<1>3. IsFiniteSet(1..Len(u.snap.tables)) BY <1>2, FS_Interval
<1>4. Listed(u) \subseteq 1..Len(u.snap.tables) BY <1>2 DEF Listed
<1>5. IsFiniteSet(Listed(u)) BY <1>3, <1>4, FS_Subset
<1> QED BY <1>2, <1>4, <1>5, FS_CardinalityType DEF ListSize

LEMMA LayoutTyped ==
  ASSUME NEW u \in LooseType
  PROVE  /\ BodyHeight(u) \in Nat \ {0}
         /\ Columns(u) \in Nat
         /\ u.snap.rows \in Nat
<1>1. u.snap \in SnapshotType /\ u.screen \in [width : Nat \ {0}, height : Nat \ {0}]
  BY SnapshotAssumption, ScreenAssumption DEF LooseType, LooseRecord
<1>2. BodyHeight(u) \in Nat \ {0} BY <1>1 DEF BodyHeight, Larger
<1>3. Columns(u) \in Nat BY <1>1 DEF Columns, SnapshotType
<1>4. u.snap.rows \in Nat BY <1>1 DEF SnapshotType
<1> QED BY <1>2, <1>3, <1>4

LEMMA BoundInRange ==
  ASSUME NEW n \in Int, NEW length \in Nat
  PROVE  Bound(n, length) \in Nat /\ IndexOf(Bound(n, length), length)
BY DEF Bound, Larger, Smaller, IndexOf

LEMMA FollowHolds ==
  ASSUME NEW first \in Nat, NEW at \in Nat, NEW count \in Nat, NEW body \in Nat \ {0},
         IndexOf(at, count)
  PROVE  /\ Follow(first, at, count, body) \in Nat
         /\ Holds(Follow(first, at, count, body), at, count, body)
BY DEF Follow, Holds, IndexOf, Larger, Smaller

-----------------------------------------------------------------------------
(* Sums of widths *)

(* g adds up w over each part of S, taking the first of its elements away. *)
AddsUp(g, S, w, first) ==
    \A s \in SUBSET S : g[s] = IF s = {} THEN 0 ELSE w[first[s]] + g[s \ {first[s]}]

(* Sums over a finite set exist: one that is right for the sets of at most n
   elements extends to those of n + 1. *)
LEMMA SumExists ==
  ASSUME NEW S, IsFiniteSet(S), NEW w \in [S -> Nat],
         NEW first \in [SUBSET S -> S], \A s \in SUBSET S : s # {} => first[s] \in s
  PROVE  \E g \in [SUBSET S -> Nat] : AddsUp(g, S, w, first)
<1> DEFINE upTo(n) == {s \in SUBSET S : Cardinality(s) =< n}
           sums(n) == {g \in [SUBSET S -> Nat] :
                         \A s \in upTo(n) : g[s] = IF s = {} THEN 0
                                                   ELSE w[first[s]] + g[s \ {first[s]}]}
           bad == {n \in Nat : sums(n) = {}}
<1>1. ASSUME NEW s \in SUBSET S, s # {}
      PROVE  /\ first[s] \in s /\ s \ {first[s]} \in SUBSET S
             /\ Cardinality(s) \in Nat /\ Cardinality(s \ {first[s]}) = Cardinality(s) - 1
  <2>1. first[s] \in s BY <1>1
  <2>2. IsFiniteSet(s) BY FS_Subset
  <2> QED BY <2>1, <2>2, FS_RemoveElement, FS_CardinalityType
<1>2. \A s \in SUBSET S : Cardinality(s) \in Nat /\ (Cardinality(s) = 0 <=> s = {})
  BY FS_Subset, FS_CardinalityType, FS_EmptySet
<1>3. sums(0) # {}
  <2>1. [s \in SUBSET S |-> 0] \in sums(0) BY <1>2
  <2> QED BY <2>1
<1>4. ASSUME NEW n \in Nat, sums(n) # {} PROVE sums(n + 1) # {}
  <2>1. PICK g \in sums(n) : TRUE BY <1>4
  <2> DEFINE h == [s \in SUBSET S |->
                     IF s \in upTo(n) \/ s = {} THEN g[s] ELSE w[first[s]] + g[s \ {first[s]}]]
  <2>2. g \in [SUBSET S -> Nat] BY <2>1
  <2>3. h \in [SUBSET S -> Nat] BY <1>1, <2>2
  <2>4. ASSUME NEW s \in upTo(n + 1)
        PROVE  h[s] = IF s = {} THEN 0 ELSE w[first[s]] + h[s \ {first[s]}]
    <3>1. CASE s = {}
      <4>1. s \in upTo(n) BY <1>2, <3>1
      <4> QED BY <2>1, <3>1, <4>1
    <3>2. CASE s # {}
      <4>1. s \ {first[s]} \in upTo(n) BY <1>1, <3>2
      <4>2. h[s \ {first[s]}] = g[s \ {first[s]}] BY <4>1
      <4>3. h[s] = w[first[s]] + g[s \ {first[s]}]
        <5>1. CASE s \in upTo(n) BY <2>1, <3>2, <5>1
        <5>2. CASE s \notin upTo(n) BY <3>2, <5>2
        <5> QED BY <5>1, <5>2
      <4> QED BY <3>2, <4>2, <4>3
    <3> QED BY <3>1, <3>2
  <2>5. h \in sums(n + 1) BY <2>3, <2>4
  <2> QED BY <2>5
<1>5. bad = {}
  <2>1. SUFFICES ASSUME bad # {} PROVE FALSE OBVIOUS
  <2>2. Min(bad) \in bad /\ \A k \in bad : Min(bad) =< k BY <2>1, LeastNatural
  <2>3. PICK n \in bad : \A k \in bad : n =< k BY <2>2
  <2> HIDE DEF sums
  <2>4. n # 0 /\ n \in Nat BY <1>3, <2>3
  <2>5. n - 1 \in Nat /\ n - 1 \notin bad BY <2>3, <2>4
  <2>6. sums(n - 1) # {} BY <2>5
  <2>7. sums((n - 1) + 1) # {} BY <1>4, <2>5, <2>6
  <2>8. (n - 1) + 1 = n BY <2>4
  <2> QED BY <2>3, <2>7, <2>8
<1>6. PICK g \in sums(Cardinality(S)) : TRUE
  <2>1. Cardinality(S) \in Nat BY <1>2
  <2> HIDE DEF sums
  <2>2. sums(Cardinality(S)) # {} BY <1>5, <2>1
  <2> QED BY <2>2
<1>7. \A s \in SUBSET S : s \in upTo(Cardinality(S)) BY FS_Subset
<1>8. g \in [SUBSET S -> Nat] BY <1>6
<1>9. \A s \in SUBSET S : g[s] = IF s = {} THEN 0 ELSE w[first[s]] + g[s \ {first[s]}]
  BY <1>6, <1>7
<1> QED BY <1>8, <1>9 DEF AddsUp

(* A sum of natural numbers is one, and no less than the sum of some two of them,
   where there are two. *)
LEMMA SumOfNaturals ==
  ASSUME NEW S, IsFiniteSet(S), NEW f \in [S -> Nat]
  PROVE  /\ SumFunction(f) \in Nat
         /\ \A x \in S, y \in S :
               x # y => \E a \in S, b \in S : SumFunction(f) >= f[a] + f[b]
<1> DEFINE first(s) == CHOOSE x \in s : TRUE
           sums(g) == g = [s \in SUBSET S |-> IF s = {} THEN 0
                                              ELSE f[first(s)] + g[s \ {first(s)}]]
           iter == CHOOSE g : sums(g)
<1>1. SumFunction(f) = iter[S]
  <2>1. DOMAIN f = S OBVIOUS
  <2> QED BY <2>1 DEF SumFunction, SumFunctionOnSet, FoldFunctionOnSet, MapThenFoldSet
<1>2. ASSUME NEW s \in SUBSET S, s # {} PROVE first(s) \in S /\ first(s) \in s
  <2>1. PICK x : x \in s BY <1>2
  <2> HIDE DEF iter, sums
  <2>2. first(s) \in s BY <2>1
  <2> QED BY <2>2
<1>3. \E g : sums(g)
  <2>1. CASE S = {}
    <3>1. sums([s \in SUBSET S |-> 0]) BY <2>1
    <3> QED BY <3>1
  <2>2. CASE S # {}
    <3>1. PICK z : z \in S BY <2>2
    <3> DEFINE pick == [s \in SUBSET S |-> IF s = {} THEN z ELSE first(s)]
    <3> HIDE DEF first
    <3>2. pick \in [SUBSET S -> S] /\ \A s \in SUBSET S : s # {} => pick[s] \in s
      BY <1>2, <3>1
    <3>3. \A s \in SUBSET S : s # {} => pick[s] = first(s) OBVIOUS
    <3> HIDE DEF pick
    <3>4. PICK g \in [SUBSET S -> Nat] : AddsUp(g, S, f, pick) BY <3>2, SumExists
    <3>5. sums(g) BY <3>3, <3>4 DEF AddsUp
    <3> QED BY <3>5
  <2> QED BY <2>1, <2>2
<1>4. sums(iter)
  <2> HIDE DEF sums
  <2> QED BY <1>3
<1> HIDE DEF iter, first
<1>5. ASSUME NEW s \in SUBSET S, s # {} PROVE iter[s] = f[first(s)] + iter[s \ {first(s)}]
  BY <1>4, <1>5
<1>6. iter[{}] = 0 BY <1>4
<1> HIDE DEF sums
<1>7. \A s \in SUBSET S : iter[s] \in Nat
  <2> DEFINE bad == {n \in Nat : \E s \in SUBSET S : Cardinality(s) = n /\ iter[s] \notin Nat}
  <2>1. SUFFICES ASSUME NEW s \in SUBSET S, iter[s] \notin Nat PROVE FALSE OBVIOUS
  <2>2. bad \in SUBSET Nat /\ bad # {} BY <2>1, FS_Subset, FS_CardinalityType
  <2>3. Min(bad) \in bad /\ \A k \in bad : Min(bad) =< k BY <2>2, LeastNatural
  <2>4. PICK n \in bad : \A k \in bad : n =< k BY <2>3
  <2>5. PICK t \in SUBSET S : Cardinality(t) = n /\ iter[t] \notin Nat BY <2>4
  <2>6. t # {} BY <1>6, <2>5
  <2>7. iter[t] = f[first(t)] + iter[t \ {first(t)}] BY <1>5, <2>6
  <2>8. first(t) \in S /\ first(t) \in t BY <1>2, <2>6
  <2>9. /\ IsFiniteSet(t) /\ Cardinality(t) \in Nat
        /\ Cardinality(t \ {first(t)}) = Cardinality(t) - 1
        /\ Cardinality(t \ {first(t)}) \in Nat
    BY <2>8, FS_Subset, FS_RemoveElement, FS_CardinalityType
  <2>10. t \ {first(t)} \in SUBSET S BY <2>5
  <2>11. iter[t \ {first(t)}] \in Nat
    <3>1. n - 1 \notin bad BY <2>4
    <3>2. Cardinality(t \ {first(t)}) = n - 1 /\ n - 1 \in Nat BY <2>5, <2>9
    <3> QED BY <2>10, <3>1, <3>2
  <2>12. f[first(t)] \in Nat BY <2>8
  <2> QED BY <2>5, <2>7, <2>11, <2>12
<1>8. ASSUME NEW x \in S, NEW y \in S, x # y
      PROVE  \E a \in S, b \in S : iter[S] >= f[a] + f[b]
  <2> DEFINE a == first(S)
             b == first(S \ {a})
  <2>1. a \in S BY <1>2
  <2> HIDE DEF a
  <2>2. S \ {a} # {} /\ S \ {a} \in SUBSET S BY <1>8
  <2>3. b \in S BY <1>2, <2>2
  <2>4. /\ iter[S] = f[a] + iter[S \ {a}]
        /\ iter[S \ {a}] = f[b] + iter[(S \ {a}) \ {b}]
    BY <1>5, <1>8, <2>2 DEF a
  <2> HIDE DEF b
  <2>5. (S \ {a}) \ {b} \in SUBSET S OBVIOUS
  <2>6. f[a] \in Nat /\ f[b] \in Nat /\ iter[(S \ {a}) \ {b}] \in Nat
    BY <1>7, <2>1, <2>3, <2>5
  <2>7. iter[S] >= f[a] + f[b] BY <2>4, <2>6
  <2> QED BY <2>1, <2>3, <2>7
<1>9. S \in SUBSET S OBVIOUS
<1> QED BY <1>1, <1>7, <1>8, <1>9

(* Two columns are wider than one cell. *)
LEMMA TwoColumns ==
  ASSUME NEW widths \in Seq(Nat \ {0}), NEW grid \in Nat \ {0},
         NEW start \in Nat, NEW end \in Nat, start < end, end < Len(widths)
  PROVE  SpanWidth(widths, grid, start, end) \in Nat /\ SpanWidth(widths, grid, start, end) > 1
<1> DEFINE S == start..end
           w == [c \in S |-> ColumnWidth(widths, grid, c)]
<1>1. \A c \in S : w[c] \in Nat /\ w[c] >= 1 BY DEF ColumnWidth, Smaller
<1>2. IsFiniteSet(S) BY FS_Interval
<1>3. w \in [S -> Nat] BY <1>1
<1>4. SpanWidth(widths, grid, start, end) = SumFunction(w)
  <2>1. Smaller(end, Len(widths) - 1) = end BY DEF Smaller
  <2> QED BY <2>1 DEF SpanWidth
<1>5. start \in S /\ end \in S /\ start # end OBVIOUS
<1> HIDE DEF S, w
<1>6. SumFunction(w) \in Nat BY <1>2, <1>3, SumOfNaturals
<1>7. PICK a \in S, b \in S : SumFunction(w) >= w[a] + w[b]
  BY <1>2, <1>3, <1>5, SumOfNaturals
<1> QED BY <1>1, <1>4, <1>6, <1>7

LEMMA TextLinesTyped ==
  ASSUME NEW texts \in Seq(Text), NEW z \in Screens, NEW w \in 1..z.width
  PROVE  TextLines(texts, w) \in Nat
<1> DEFINE S == 1..Len(texts)
           f == [i \in S |-> texts[i][w]]
<1>1. CASE texts = <<>> BY <1>1 DEF TextLines
<1>2. CASE texts # <<>>
  <2>1. DOMAIN texts = S /\ IsFiniteSet(S) BY FS_Interval
  <2>2. w \in UNION {1..y.width : y \in Screens} OBVIOUS
  <2>3. \A i \in S : texts[i] \in Text OBVIOUS
  <2>4. \A t \in Text : t[w] \in Nat BY <2>2 DEF Text
  <2>5. f \in [S -> Nat] BY <2>3, <2>4
  <2>6. TextLines(texts, w) = SumFunction(f) BY <1>2, <2>1 DEF TextLines
  <2> HIDE DEF S, f
  <2> QED BY <2>1, <2>5, <2>6, SumOfNaturals
<1> QED BY <1>1, <1>2

(* The structure has lines, whether or not its grid is drawn. *)
LEMMA StructureTyped ==
  ASSUME NEW u \in LooseType
  PROVE  StructureLines(u) \in Nat /\ LastStart(u) \in Nat
<1> DEFINE s == u.snap.structure
           w == GridWidth(u)
<1>1. u.screen \in Screens /\ u.screen \in [width : Nat \ {0}, height : Nat \ {0}]
  BY ScreenAssumption DEF LooseType, LooseRecord
<1>2. w \in 1..u.screen.width
  <2>1. SidebarWidth(u) \in Nat BY <1>1 DEF SidebarWidth, Smaller, Larger
  <2> QED BY <1>1, <2>1 DEF GridWidth, Larger
<1>3. Larger(1, w - 2) \in 1..u.screen.width BY <1>1, <1>2 DEF Larger
<1>4. s.columns \in Seq(Text) /\ s.indexes \in Seq(Text) /\ s.relations \in Seq(Text)
  <2>1. u.snap \in SnapshotType BY SnapshotAssumption DEF LooseType, LooseRecord
  <2> QED BY <2>1 DEF SnapshotType, StructureType
<1> HIDE DEF s, w
<1>5. /\ TextLines(s.columns, Larger(1, w - 2)) \in Nat
      /\ TextLines(s.indexes, w) \in Nat /\ TextLines(s.relations, w) \in Nat
  BY <1>1, <1>2, <1>3, <1>4, TextLinesTyped
<1>6. ColumnLines(s.columns, w) \in Nat
  <2>1. Len(s.columns) \in Nat BY <1>4
  <2> QED BY <1>5, <2>1 DEF ColumnLines, Larger
<1>7. StructureLines(u) \in Nat BY <1>5, <1>6 DEF StructureLines, StructureHeight, s, w
<1> QED BY <1>7, LayoutTyped DEF LastStart, Larger

LEMMA GridOfScreen ==
  ASSUME NEW u \in LooseType
  PROVE  /\ GridOf(u.screen) \in Nat \ {0}
         /\ GridDrawn(u) => GridWidth(u) = GridOf(u.screen)
         /\ ~GridDrawn(u) => GridWidth(u) = 1
<1>1. u.screen \in [width : Nat \ {0}, height : Nat \ {0}]
  BY ScreenAssumption DEF LooseType, LooseRecord
<1>2. GridOf(u.screen) \in Nat \ {0} BY <1>1 DEF GridOf, Larger, Smaller
<1>3. CASE u.screen.width < 64
  <2>1. CASE u.focus = "tables"
    BY <1>1, <1>2, <1>3, <2>1 DEF GridDrawn, GridWidth, SidebarWidth, Larger
  <2>2. CASE u.focus # "tables"
    BY <1>1, <1>2, <1>3, <2>2 DEF GridDrawn, GridWidth, SidebarWidth, GridOf
  <2> QED BY <2>1, <2>2
<1>4. CASE u.screen.width >= 64
  <2>1. SidebarWidth(u) = Smaller(28, Larger(20, u.screen.width \div 5))
    BY <1>1, <1>4 DEF SidebarWidth
  <2>2. SidebarWidth(u) < u.screen.width BY <1>1, <1>4, <2>1 DEF Smaller, Larger
  <2>3. GridWidth(u) = GridOf(u.screen) BY <1>1, <1>4, <2>1 DEF GridWidth, GridOf
  <2> QED BY <1>2, <2>2, <2>3 DEF GridDrawn
<1> QED BY <1>1, <1>3, <1>4

(* Where the columns begin after clamp, the selected one fits. *)
LEMMA LeftmostFits ==
  ASSUME NEW u \in LooseType, NEW col \in Nat
  PROVE  /\ Leftmost(u, col) \in Nat /\ Leftmost(u, col) =< col
         /\ \/ Leftmost(u, col) = col
            \/ ColumnsWidth(u, Leftmost(u, col), col) =< GridWidth(u)
<1> DEFINE fits(l) == ColumnsWidth(u, l, col) =< GridWidth(u)
           S == {l \in Smaller(u.left, col)..col : l = col \/ fits(l)}
           T == {l \in 0..Min(S) : \A k \in l..(Min(S) - 1) : fits(k)}
<1>1. u.left \in Nat BY DEF LooseType, LooseRecord
<1>2. Smaller(u.left, col) \in Nat /\ col \in Smaller(u.left, col)..col
  BY <1>1 DEF Smaller
<1>3. S \in SUBSET Nat /\ S # {} BY <1>2
<1> HIDE DEF fits
<1>4. /\ Min(S) \in Nat /\ Min(S) =< col
      /\ Min(S) = col \/ fits(Min(S))
  <2>1. Min(S) \in S BY <1>3, LeastNatural
  <2> QED BY <1>2, <1>3, <2>1
<1> HIDE DEF S
<1>5. Min(S) \in T BY <1>4
<1>6. T \in SUBSET Nat /\ T # {} BY <1>4, <1>5
<1>7. Min(T) \in T BY <1>6, LeastNatural
<1>8. Min(T) \in Nat /\ Min(T) =< col /\ (Min(T) = col \/ fits(Min(T)))
  <2>1. CASE Min(T) = Min(S) BY <1>4, <2>1
  <2>2. CASE Min(T) # Min(S)
    <3>1. Min(T) \in Min(T)..(Min(S) - 1) BY <1>4, <1>7, <2>2
    <3>2. fits(Min(T)) BY <1>7, <3>1
    <3> QED BY <1>4, <1>7, <3>2
  <2> QED BY <2>1, <2>2
<1> QED BY <1>8 DEF Leftmost, S, T, fits

(* In a hidden grid, of one cell, only one column fits: it is drawn whatever the
   width of the grid when it comes back. *)
LEMMA ClampSpans ==
  ASSUME NEW u \in LooseType, NEW left \in Nat, NEW col \in Nat,
         left =< col, col < Columns(u),
         left = col \/ ColumnsWidth(u, left, col) =< GridWidth(u)
  PROVE  left = col \/ SpanWidth(u.snap.widths, GridOf(u.screen), left, col) =< GridOf(u.screen)
<1>1. CASE GridDrawn(u) BY <1>1, GridOfScreen DEF ColumnsWidth
<1>2. CASE ~GridDrawn(u)
  <2>1. u.snap.widths \in Seq(Nat \ {0}) /\ Columns(u) = Len(u.snap.widths)
    BY SnapshotAssumption DEF LooseType, LooseRecord, SnapshotType, Columns
  <2>2. GridWidth(u) = 1 BY <1>2, GridOfScreen
  <2>3. CASE left < col
    <3>1. /\ SpanWidth(u.snap.widths, 1, left, col) > 1
          /\ SpanWidth(u.snap.widths, 1, left, col) \in Nat
      BY <2>1, <2>3, TwoColumns
    <3> QED BY <2>2, <2>3, <3>1 DEF ColumnsWidth
  <2> QED BY <2>3
<1> QED BY <1>1, <1>2

-----------------------------------------------------------------------------
(* What clamp leaves *)

LEMMA ClampTyped ==
  ASSUME NEW u \in LooseType
  PROVE  /\ Clamp(u) \in ModelType
         /\ Clamp(u).snap = u.snap /\ Clamp(u).search = u.search
         /\ Clamp(u).table = Bound(u.table, ListSize(u))
<1>1. /\ Bound(u.table, ListSize(u)) \in Nat /\ Bound(u.row, u.snap.rows) \in Nat
      /\ Bound(u.col, Columns(u)) \in Nat
  BY BoundInRange, LayoutTyped, ListSizeTyped DEF LooseType, LooseRecord
<1>2. /\ Follow(u.top, Bound(u.row, u.snap.rows), u.snap.rows, BodyHeight(u)) \in Nat
      /\ Follow(u.tableTop, Bound(u.table, ListSize(u)), ListSize(u), BodyHeight(u)) \in Nat
  BY <1>1, BoundInRange, FollowHolds, LayoutTyped, ListSizeTyped DEF LooseType, LooseRecord
<1>3. Leftmost(u, Bound(u.col, Columns(u))) \in Nat BY <1>1, LeftmostFits
<1>4. u.tab = "structure" => Larger(0, Smaller(u.structureTop, LastStart(u))) \in Nat
  BY StructureTyped DEF Larger, Smaller, LooseType, LooseRecord
<1> QED BY <1>1, <1>2, <1>3, <1>4 DEF Clamp, ModelType, LooseType, LooseRecord

LEMMA ClampFits ==
  ASSUME NEW u \in LooseType, m' = Clamp(u)
  PROVE  Fits
<1> DEFINE v == Clamp(u)
<1>1. v \in ModelType /\ v.snap = u.snap BY ClampTyped
<1>2. /\ v.screen = u.screen /\ v.search = u.search /\ v.tab = u.tab /\ v.focus = u.focus
      /\ v.row = Bound(u.row, u.snap.rows) /\ v.col = Bound(u.col, Columns(u))
      /\ v.table = Bound(u.table, ListSize(u))
      /\ v.left = Leftmost(u, v.col)
      /\ v.top = Follow(u.top, v.row, u.snap.rows, BodyHeight(u))
      /\ v.tableTop = Follow(u.tableTop, v.table, ListSize(u), BodyHeight(u))
      /\ u.tab = "structure" =>
            v.structureTop = Larger(0, Smaller(u.structureTop, LastStart(u)))
  BY DEF Clamp, LooseType, LooseRecord
<1>3. /\ Columns(v) = Columns(u) /\ ListSize(v) = ListSize(u) /\ BodyHeight(v) = BodyHeight(u)
      /\ LastStart(v) = LastStart(u)
  BY <1>1, <1>2
  DEF Columns, ListSize, Listed, BodyHeight, LastStart, StructureLines, GridWidth, SidebarWidth
<1>4. m' = v OBVIOUS
<1>5. /\ u.row \in Int /\ u.col \in Int /\ u.table \in Int /\ u.top \in Nat
      /\ u.tableTop \in Nat /\ u.structureTop \in Int
  BY DEF LooseType, LooseRecord
<1> HIDE DEF v
<1>6. CursorInRange'
  BY <1>1, <1>2, <1>3, <1>4, <1>5, BoundInRange, LayoutTyped, ListSizeTyped DEF CursorInRange
<1>7. RowShown'
  <2>1. v.row \in Nat /\ IndexOf(v.row, u.snap.rows)
    BY <1>2, <1>5, BoundInRange, LayoutTyped
  <2>2. Holds(v.top, v.row, u.snap.rows, BodyHeight(u))
    BY <1>2, <1>5, <2>1, FollowHolds, LayoutTyped
  <2> QED BY <1>1, <1>3, <1>4, <2>2 DEF RowShown
<1>8. TableShown'
  <2>1. v.table \in Nat /\ IndexOf(v.table, ListSize(u))
    BY <1>2, <1>5, BoundInRange, ListSizeTyped
  <2>2. Holds(v.tableTop, v.table, ListSize(u), BodyHeight(u))
    BY <1>2, <1>5, <2>1, FollowHolds, LayoutTyped, ListSizeTyped
  <2> QED BY <1>3, <1>4, <2>2 DEF TableShown
<1>9. v.tab = "structure" => v.structureTop =< LastStart(v)
  BY <1>2, <1>3, <1>5, StructureTyped DEF Larger, Smaller
<1>10. StructureHeld' BY <1>4, <1>9 DEF StructureHeld
<1>11. ~PastEnd(m')
  <2>1. v.structureTop \in Nat /\ LastStart(v) \in Nat
    BY <1>1, <1>3, StructureTyped DEF ModelType
  <2> QED BY <1>4, <1>9, <2>1 DEF PastEnd
<1>12. ColumnHeld'
  <2>1. SUFFICES ASSUME Columns(u) > 0 PROVE Spans(v, GridOf(u.screen))
    BY <1>2, <1>3, <1>4 DEF ColumnHeld
  <2>2. v.col \in Nat /\ v.col < Columns(u)
    BY <1>2, <1>5, <2>1, BoundInRange, LayoutTyped DEF IndexOf
  <2>3. /\ v.left \in Nat /\ v.left =< v.col
        /\ v.left = v.col \/ ColumnsWidth(u, v.left, v.col) =< GridWidth(u)
    BY <1>2, <2>2, LeftmostFits
  <2> QED BY <1>1, <1>3, <2>2, <2>3, ClampSpans DEF Spans
<1> QED BY <1>6, <1>7, <1>8, <1>10, <1>11, <1>12 DEF Fits, ViewportInvariant, WindowsHold

(* Steps that return before clamp move the focus and the tab, and nothing else
   that the windows of the lists depend on.  On a narrow screen the grid, and with
   it the structure, has another width once it is drawn. *)
LEMMA FocusFits ==
  ASSUME ViewportInvariant, NEW f \in {"tables", "result"}, NEW t \in {m.tab, "data"},
         m' = [m EXCEPT !.focus = f, !.tab = t]
  PROVE  Fits
<1>1. /\ m \in ModelType /\ m' \in ModelType
      /\ m'.snap = m.snap /\ m'.screen = m.screen /\ m'.search = m.search
      /\ m'.focus = f /\ m'.tab = t
      /\ m'.row = m.row /\ m'.col = m.col /\ m'.top = m.top /\ m'.table = m.table
      /\ m'.tableTop = m.tableTop /\ m'.structureTop = m.structureTop /\ m'.left = m.left
  BY DEF ViewportInvariant, CursorInRange, ModelType
<1>2. /\ Columns(m') = Columns(m) /\ ListSize(m') = ListSize(m)
      /\ BodyHeight(m') = BodyHeight(m)
  BY <1>1 DEF Columns, ListSize, Listed, BodyHeight
<1>3. m.screen \in [width : Nat \ {0}, height : Nat \ {0}]
  BY <1>1, ScreenAssumption DEF ModelType
<1>4. CursorInRange' BY <1>1, <1>2 DEF ViewportInvariant, CursorInRange
<1>5. RowShown' /\ TableShown'
  BY <1>1, <1>2 DEF ViewportInvariant, WindowsHold, RowShown, TableShown
<1>6. ColumnHeld' BY <1>1, <1>2 DEF ViewportInvariant, ColumnHeld, Spans
<1>7. StructureHeld'
  <2>1. SUFFICES ASSUME m.screen.width >= 64, t = "structure"
                 PROVE  m'.structureTop =< LastStart(m')
    BY <1>1 DEF StructureHeld
  <2>2. SidebarWidth(m') = SidebarWidth(m) BY <1>1, <1>3, <2>1 DEF SidebarWidth
  <2>3. GridWidth(m') = GridWidth(m) BY <1>1, <2>2 DEF GridWidth
  <2>4. LastStart(m') = LastStart(m) BY <1>1, <1>2, <2>3 DEF LastStart, StructureLines
  <2>5. m.tab = "structure" BY <2>1
  <2> QED BY <1>1, <2>1, <2>4, <2>5 DEF ViewportInvariant, StructureHeld
<1>8. ASSUME PastEnd(m') PROVE OnlyFocusMoves
  <2>1. m'.structureTop \in Nat /\ LastStart(m') \in Nat
    <3>1. m' \in LooseType BY <1>1 DEF ModelType, LooseType, LooseRecord
    <3> QED BY <1>1, <3>1, StructureTyped DEF ModelType
  <2>2. m.screen.width < 64
    BY <1>1, <1>3, <1>7, <1>8, <2>1 DEF StructureHeld, PastEnd
  <2>3. f = "result"
    BY <1>1, <1>3, <1>8, <2>2 DEF PastEnd, GridDrawn, SidebarWidth
  <2>4. t = m.tab BY <1>1, <1>8 DEF PastEnd
  <2>5. m' = [m EXCEPT !.focus = "result"] BY <1>1, <2>3, <2>4 DEF ModelType
  <2> QED BY <2>2, <2>5 DEF OnlyFocusMoves
<1> QED BY <1>4, <1>5, <1>6, <1>7, <1>8 DEF Fits, ViewportInvariant, WindowsHold

-----------------------------------------------------------------------------
(* The cursor and the windows *)

LEMMA InvariantIsLoose ==
  ASSUME ViewportInvariant
  PROVE  m \in LooseType
BY DEF ViewportInvariant, CursorInRange, ModelType, LooseType, LooseRecord

LEMMA AcceptFits ==
  ASSUME ViewportInvariant, NEW s \in Snapshots, m' = Accepted(m, s)
  PROVE  Fits
<1> DEFINE changed == TableChanged(m, s)
           v == [m EXCEPT !.snap = s, !.search = IF changed THEN SearchFor(m, s) ELSE @]
           w == IF changed THEN AtTable(v) ELSE v
           x == IF changed \/ s.page # m.snap.page THEN FromTop(w) ELSE w
<1>1. v \in LooseType
  <2>1. m \in ModelType BY DEF ViewportInvariant, CursorInRange
  <2>2. (IF changed THEN SearchFor(m, s) ELSE m.search) \in Searches
    BY <2>1, SearchAssumption DEF ModelType, SearchFor
  <2>3. v = [m EXCEPT !.snap = s, !.search = IF changed THEN SearchFor(m, s) ELSE m.search]
    BY <2>1 DEF ModelType
  <2> HIDE DEF changed
  <2>4. m \in LooseRecord BY <2>1 DEF ModelType, LooseRecord
  <2>5. v \in LooseRecord BY <2>2, <2>3, <2>4, SetField, Zenon
  <2>6. v.structureTop \in Nat BY <2>1 DEF ModelType
  <2> QED BY <2>5, <2>6 DEF LooseType
<1>2. w \in LooseType
  <2>1. CASE ~changed BY <1>1, <2>1
  <2>2. CASE AtTable(v) = v BY <1>1, <2>2
  <2>3. ASSUME NEW i \in Nat, AtTable(v) = [v EXCEPT !.table = Place(v, i)] PROVE AtTable(v) \in LooseType
    <3>1. Place(v, i) \in Nat
      <4>1. IsFiniteSet({j \in Listed(v) : j < i}) BY <1>1, ListSizeTyped, FS_Subset
      <4> QED BY <4>1, FS_CardinalityType DEF Place
    <3> HIDE DEF v
    <3> QED BY <1>1, <2>3, <3>1 DEF LooseType, LooseRecord
  <2>4. \/ AtTable(v) = v
        \/ \E i \in Nat : AtTable(v) = [v EXCEPT !.table = Place(v, i)]
    <3> DEFINE at == {i \in Listed(v) : v.snap.tables[i] = v.snap.table}
    <3>1. at \in SUBSET Nat BY <1>1, ListSizeTyped
    <3>2. AtTable(v) = IF at = {} THEN v ELSE [v EXCEPT !.table = Place(v, Min(at))]
      BY DEF AtTable
    <3> HIDE DEF at, v
    <3>3. at # {} => Min(at) \in Nat BY <3>1, LeastNatural
    <3> QED BY <3>2, <3>3
  <2> HIDE DEF v
  <2> QED BY <2>1, <2>2, <2>3, <2>4
<1>3. x \in LooseType
  <2> HIDE DEF w
  <2> QED BY <1>2, FromTopTyped
<1>4. m' = Clamp(x) BY DEF Accepted
<1> HIDE DEF x
<1> QED BY <1>3, <1>4, ClampFits

LEMMA StepFits ==
  ASSUME ViewportInvariant, [Next]_vars
  PROVE  Fits
<1> USE InvariantIsLoose
<1> DEFINE Body == BodyHeight(m)
<1>1. /\ m \in ModelType /\ m \in LooseType /\ m \in LooseRecord
      /\ BodyHeight(m) \in Nat \ {0} /\ BodyHeight(m) \div 2 \in Nat /\ Columns(m) \in Nat
  BY LayoutTyped DEF ViewportInvariant, CursorInRange, LooseType
<1>2. CASE Resize
  <2>1. PICK z \in Screens : m' = Clamp([m EXCEPT !.screen = z]) BY <1>2 DEF Resize, ResizedTo
  <2>2. [m EXCEPT !.screen = z] \in LooseType BY <1>1 DEF LooseType, LooseRecord
  <2> QED BY <2>1, <2>2, ClampFits
<1>3. CASE Accept BY <1>3, AcceptFits DEF Accept
<1>4. CASE Move
  <2>1. PICK n \in Distances(m) : m' = Clamp(Moved(m, n)) BY <1>4 DEF Move
  <2>2. n \in Int BY <1>1 DEF Distances, Larger
  <2>3. Moved(m, n) \in LooseType BY <1>1, <2>2 DEF Moved, LooseType, LooseRecord
  <2> QED BY <2>1, <2>3, ClampFits
<1>5. CASE MoveColumn
  <2>1. PICK n \in {1, -1} : m' = Clamp([m EXCEPT !.col = @ + n]) BY <1>5 DEF MoveColumn
  <2>2. [m EXCEPT !.col = @ + n] \in LooseType BY <1>1 DEF LooseType, LooseRecord
  <2> QED BY <2>1, <2>2, ClampFits
<1>6. CASE Wheel
  <2>1. PICK n \in {3, -3} :
           \/ m' = Clamp([m EXCEPT !.table = @ + n])
           \/ m.tab = "structure" /\ m' = Clamp([m EXCEPT !.structureTop = @ + n])
           \/ m' = Clamp([m EXCEPT !.row = @ + n])
    BY <1>6 DEF Wheel
  <2>2. /\ [m EXCEPT !.table = @ + n] \in LooseType
        /\ [m EXCEPT !.row = @ + n] \in LooseType
        /\ m.tab = "structure" => [m EXCEPT !.structureTop = @ + n] \in LooseType
    BY <1>1 DEF LooseType, LooseRecord
  <2> QED BY <2>1, <2>2, ClampFits
<1>7. CASE SwitchFocus
  <2>1. [m EXCEPT !.focus = Other(@)] \in LooseType BY <1>1 DEF LooseType, LooseRecord, Other
  <2> QED BY <1>7, <2>1, ClampFits DEF SwitchFocus
<1>8. CASE ShowTab
  <2>1. PICK t \in {"data", "structure"} :
           m' = Clamp([m EXCEPT !.tab = t, !.focus = "result"])
    BY <1>8 DEF ShowTab
  <2>2. [m EXCEPT !.tab = t, !.focus = "result"] \in LooseType BY <1>1 DEF LooseType, LooseRecord, ModelType
  <2> QED BY <2>1, <2>2, ClampFits
<1>9. CASE Find
  <2>1. PICK q \in Searches :
           m' = Clamp([m EXCEPT !.search = q, !.table = 0, !.tableTop = 0])
    BY <1>9 DEF Find
  <2>2. [m EXCEPT !.search = q, !.table = 0, !.tableTop = 0] \in LooseType
    <3>1. 0 \in Int /\ 0 \in Nat OBVIOUS
    <3>2. [m EXCEPT !.search = q, !.table = 0, !.tableTop = 0] \in LooseRecord BY <1>1, <3>1, SetField, Zenon
    <3>3. [m EXCEPT !.search = q, !.table = 0, !.tableTop = 0].structureTop \in Nat BY <1>1 DEF ModelType
    <3> QED BY <3>2, <3>3 DEF LooseType
  <2> QED BY <2>1, <2>2, ClampFits
<1>10. CASE ClearSearch
  <2>1. [m EXCEPT !.search = Tables] \in LooseType BY <1>1, SearchAssumption DEF LooseType, LooseRecord
  <2> QED BY <1>10, <2>1, ClampFits DEF ClearSearch
<1>11. CASE ShowData
  <2>1. m' = [m EXCEPT !.focus = "result", !.tab = "data"] BY <1>11 DEF ShowData
  <2> QED BY <2>1, FocusFits
<1>12. CASE \E f \in {"tables", "result"} : m' = [m EXCEPT !.focus = f]
  <2>1. PICK f \in {"tables", "result"} : m' = [m EXCEPT !.focus = f] BY <1>12
  <2>2. m' = [m EXCEPT !.focus = f, !.tab = m.tab] BY <1>1, <2>1 DEF ModelType
  <2> QED BY <2>2, FocusFits
<1>13. CASE ClickEdge
  <2>1. PICK c \in 0..(Columns(m) - 1) : m' = Clamp([m EXCEPT !.focus = "result", !.col = c])
    BY <1>13 DEF ClickEdge
  <2>2. [m EXCEPT !.focus = "result", !.col = c] \in LooseType
    <3>1. c \in Int BY <1>1
    <3>2. [m EXCEPT !.focus = "result", !.col = c] \in LooseRecord BY <1>1, <3>1, SetField, Zenon
    <3>3. [m EXCEPT !.focus = "result", !.col = c].structureTop \in Nat BY <1>1 DEF ModelType
    <3> QED BY <3>2, <3>3 DEF LooseType
  <2> QED BY <2>1, <2>2, ClampFits
<1>14. ASSUME NEW y \in 0..(BodyHeight(m) - 1), m.tableTop + y < ListSize(m),
              m' = [m EXCEPT !.table = m.tableTop + y, !.focus = "result", !.tab = "data"]
       PROVE  Fits
  <2>1. /\ m'.table = m.tableTop + y /\ m'.tableTop = m.tableTop
        /\ m'.snap = m.snap /\ m'.search = m.search /\ m'.screen = m.screen
        /\ m'.row = m.row /\ m'.col = m.col /\ m'.top = m.top /\ m'.tab = "data"
        /\ m'.left = m.left /\ m'.structureTop = m.structureTop /\ m'.focus = "result"
        /\ DOMAIN m' = DOMAIN m /\ m.tableTop \in Nat
    BY <1>1, <1>14 DEF ModelType
  <2>2. m' \in ModelType
    <3>1. m.tableTop + y \in Int BY <2>1
    <3>2. m' \in LooseRecord BY <1>1, <1>14, <3>1, SetField, Zenon
    <3> QED BY <1>1, <2>1, <3>2 DEF ModelType, LooseRecord
  <2>3. /\ ListSize(m') = ListSize(m) /\ BodyHeight(m') = BodyHeight(m)
        /\ Columns(m') = Columns(m)
    BY <2>1, <2>2 DEF ListSize, Listed, BodyHeight, Columns
  <2>4. CursorInRange'
    BY <1>14, <2>1, <2>2, <2>3 DEF ViewportInvariant, CursorInRange, IndexOf
  <2>5. RowShown' BY <2>1, <2>2, <2>3 DEF ViewportInvariant, WindowsHold, RowShown
  <2>6. TableShown'
    BY <1>1, <1>14, <2>1, <2>2, <2>3 DEF ViewportInvariant, WindowsHold, TableShown, Holds
  <2>7. StructureHeld' /\ ~PastEnd(m') BY <2>1 DEF StructureHeld, PastEnd
  <2>8. ColumnHeld' BY <2>1, <2>3 DEF ViewportInvariant, ColumnHeld, Spans
  <2> QED BY <2>4, <2>5, <2>6, <2>7, <2>8 DEF Fits, ViewportInvariant, WindowsHold
<1>15. ASSUME GridDrawn(m), NEW c \in VisibleColumns(m), m.tab = "data",
              m' = [m EXCEPT !.focus = "result", !.col = c]
       PROVE  Fits
  <2>1. c \in Nat /\ c < Columns(m) BY <1>1 DEF VisibleColumns, ModelType
  <2>2. /\ m'.snap = m.snap /\ m'.search = m.search
        /\ m'.screen = m.screen /\ m'.row = m.row /\ m'.top = m.top /\ m'.tab = m.tab
        /\ m'.table = m.table /\ m'.tableTop = m.tableTop /\ m'.col = c
        /\ m'.left = m.left /\ m'.structureTop = m.structureTop /\ m'.focus = "result"
    BY <1>1, <1>15 DEF ModelType
  <2>3. m' \in ModelType
    <3>1. c \in Int BY <2>1
    <3>2. m' \in LooseRecord BY <1>1, <1>15, <3>1, SetField, Zenon
    <3> QED BY <1>1, <2>1, <2>2, <3>2 DEF ModelType, LooseRecord
  <2>4. /\ ListSize(m') = ListSize(m) /\ BodyHeight(m') = BodyHeight(m)
        /\ Columns(m') = Columns(m)
    BY <2>2 DEF ListSize, Listed, BodyHeight, Columns
  <2>5. CursorInRange'
    BY <2>1, <2>2, <2>3, <2>4 DEF ViewportInvariant, CursorInRange, IndexOf
  <2>6. RowShown' /\ TableShown'
    BY <2>2, <2>4 DEF ViewportInvariant, WindowsHold, RowShown, TableShown
  <2>7. StructureHeld' /\ ~PastEnd(m') BY <1>15, <2>2 DEF StructureHeld, PastEnd
  <2>8. ColumnHeld'
    <3>1. GridWidth(m) = GridOf(m.screen) BY <1>1, <1>15, GridOfScreen, InvariantIsLoose
    <3>2. /\ m.left =< c /\ c < Columns(m)
          /\ c = m.left \/ SpanWidth(m.snap.widths, GridWidth(m), m.left, c) =< GridWidth(m)
      BY <1>1, <2>1 DEF VisibleColumns, ColumnsWidth, ModelType
    <3> QED BY <2>2, <2>4, <3>1, <3>2 DEF ColumnHeld, Spans
  <2> QED BY <2>5, <2>6, <2>7, <2>8 DEF Fits, ViewportInvariant, WindowsHold
<1>16. ASSUME NEW c \in VisibleColumns(m), NEW y \in 0..(BodyHeight(m) - 1),
              m' = Clamp([[m EXCEPT !.focus = "result", !.col = c] EXCEPT !.row = m.top + y])
       PROVE  Fits
  <2>1. c \in Nat /\ m.top \in Nat BY <1>1 DEF VisibleColumns, ModelType
  <2> DEFINE v == [[m EXCEPT !.focus = "result", !.col = c] EXCEPT !.row = m.top + y]
  <2>2. v \in LooseType
    <3>1. c \in Int /\ m.top + y \in Int BY <2>1
    <3>2. v \in LooseRecord BY <1>1, <3>1, SetField, Zenon
    <3>3. v.structureTop \in Nat BY <1>1 DEF ModelType
    <3> QED BY <3>2, <3>3 DEF LooseType
  <2> QED BY <1>16, <2>2, ClampFits
<1>17. CASE ClickSidebar BY <1>12, <1>14, <1>17 DEF ClickSidebar
<1>18. CASE ClickBesideGrid
  <2>1. [m EXCEPT !.focus = "result"] \in LooseType
    <3>1. [m EXCEPT !.focus = "result"] \in LooseRecord BY <1>1, SetField, Zenon
    <3>2. [m EXCEPT !.focus = "result"].structureTop \in Nat BY <1>1 DEF ModelType
    <3> QED BY <3>1, <3>2 DEF LooseType
  <2>2. CASE m' = [m EXCEPT !.focus = "result"] BY <1>12, <2>2
  <2>3. CASE m' = Clamp([m EXCEPT !.focus = "result"]) BY <2>1, <2>3, ClampFits
  <2> QED BY <1>18, <2>2, <2>3 DEF ClickBesideGrid
<1>19. CASE ClickColumn
  <2>1. ASSUME NEW c \in VisibleColumns(m),
               m' = Clamp([m EXCEPT !.focus = "result", !.col = c])
        PROVE  Fits
    <3> DEFINE v == [m EXCEPT !.focus = "result", !.col = c]
    <3>1. c \in Int BY <1>1 DEF VisibleColumns, ModelType
    <3>2. v \in LooseRecord BY <1>1, <3>1, SetField, Zenon
    <3>3. v.structureTop \in Nat BY <1>1 DEF ModelType
    <3>4. v \in LooseType BY <3>2, <3>3 DEF LooseType
    <3> QED BY <2>1, <3>4, ClampFits
  <2> QED BY <1>15, <1>16, <1>19, <2>1 DEF ClickColumn
<1>20. CASE UNCHANGED vars
  <2>1. m' = m BY <1>20 DEF vars
  <2> QED
    BY <2>1
    DEF Fits, ViewportInvariant, CursorInRange, WindowsHold, RowShown, TableShown, StructureHeld,
        ColumnHeld, Spans
<1> QED
  BY <1>2, <1>3, <1>4, <1>5, <1>6, <1>7, <1>8, <1>9, <1>10, <1>11, <1>12, <1>13, <1>17, <1>18,
     <1>19, <1>20
  DEF Next, OpenTable, FollowForeignKey, SubmitSQL, PaletteFocus

LEMMA InitFits ==
  ASSUME Init
  PROVE  ViewportInvariant
<1>1. PICK s \in Snapshots :
         m = [snap |-> s, screen |-> FirstScreen, focus |-> "tables", tab |-> "data",
              row |-> 0, col |-> 0, top |-> 0, left |-> 0, table |-> 0, tableTop |-> 0,
              structureTop |-> 0, search |-> Tables]
  BY DEF Init
<1>2. m \in ModelType BY <1>1, ScreenAssumption, SearchAssumption DEF ModelType
<1>3. m \in LooseType BY <1>2 DEF ModelType, LooseType, LooseRecord
<1>4. /\ ListSize(m) \in Nat /\ m.snap.rows \in Nat /\ Columns(m) \in Nat
      /\ BodyHeight(m) \in Nat \ {0}
  BY <1>3, LayoutTyped, ListSizeTyped
<1>5. CursorInRange BY <1>1, <1>2 DEF CursorInRange, IndexOf
<1>6. RowShown /\ TableShown BY <1>1, <1>4 DEF RowShown, TableShown, Holds, Larger
<1>7. StructureHeld BY <1>1 DEF StructureHeld
<1>8. ColumnHeld BY <1>1, <1>4 DEF ColumnHeld, Spans
<1> QED BY <1>5, <1>6, <1>7, <1>8 DEF ViewportInvariant, WindowsHold

(* Every index into the rows, columns and tables is that of an entry. *)
THEOREM CursorAlwaysInRange == Spec => []CursorInRange
<1>1. Init => ViewportInvariant BY InitFits
<1>2. ViewportInvariant /\ [Next]_vars => ViewportInvariant' BY StepFits DEF Fits
<1>3. ViewportInvariant => CursorInRange BY DEF ViewportInvariant
<1> QED BY <1>1, <1>2, <1>3, PTL DEF Spec

(* The selected row, table and column are always drawn: a step that does not clamp
   leaves the cursor where the window was, and a hidden grid comes back with its
   column.  Only the palette leads to a structure that begins past its end, from the
   list of a narrow screen. *)
THEOREM SelectionAlwaysHeld == Spec => SelectionShown
<1> DEFINE Shown == RowShown /\ TableShown /\ ColumnShown
           Passes == PastEnd(m') => OnlyFocusMoves
<1>1. Init => ViewportInvariant BY InitFits
<1>2. ViewportInvariant /\ [Next]_vars => ViewportInvariant' BY StepFits DEF Fits
<1>3. ViewportInvariant => Shown
  <2>1. SUFFICES ASSUME ViewportInvariant PROVE ColumnShown
    BY DEF ViewportInvariant, WindowsHold
  <2>2. SUFFICES ASSUME GridDrawn(m), Columns(m) > 0 PROVE m.col \in VisibleColumns(m)
    BY DEF ColumnShown
  <2>3. m \in LooseType BY <2>1, InvariantIsLoose
  <2>4. GridWidth(m) = GridOf(m.screen) BY <2>2, <2>3, GridOfScreen
  <2>5. Spans(m, GridOf(m.screen)) BY <2>1, <2>2 DEF ViewportInvariant, ColumnHeld
  <2>6. m.col \in Nat /\ m.left \in Nat /\ Columns(m) \in Nat
    BY <2>1, <2>3, LayoutTyped DEF ViewportInvariant, CursorInRange, ModelType
  <2> QED BY <2>4, <2>5, <2>6 DEF Spans, VisibleColumns, ColumnsWidth
<1>4. ViewportInvariant /\ [Next]_vars => [Passes]_vars BY StepFits DEF Fits, vars
<1> HIDE DEF Shown, Passes
<1>5. Spec => []Shown /\ [][Passes]_vars BY <1>1, <1>2, <1>3, <1>4, PTL DEF Spec
<1> QED BY <1>5 DEF SelectionShown, Shown, Passes

-----------------------------------------------------------------------------
(* The table list *)

(* A place in the list is below its size. *)
LEMMA PlaceInList ==
  ASSUME NEW u \in LooseType, NEW i \in Listed(u)
  PROVE  Place(u, i) \in Nat /\ Place(u, i) < ListSize(u)
<1> DEFINE before == {j \in Listed(u) : j < i}
<1>1. before \subseteq Listed(u) /\ i \notin before /\ IsFiniteSet(Listed(u)) /\ i \in Nat
  BY ListSizeTyped
<1>2. before # Listed(u) BY <1>1
<1>3. IsFiniteSet(before) /\ Cardinality(before) =< Cardinality(Listed(u))
  BY <1>1, FS_Subset
<1>4. Cardinality(before) # Cardinality(Listed(u)) BY <1>1, <1>2, FS_Subset
<1>5. Cardinality(before) \in Nat /\ ListSize(u) \in Nat
  BY <1>3, FS_CardinalityType, ListSizeTyped
<1> QED BY <1>3, <1>4, <1>5 DEF Place, ListSize

LEMMA AcceptFollows ==
  ASSUME ViewportInvariant, NEW s \in Snapshots, m' = Accepted(m, s), TableChanged(m, s),
         \E i \in DOMAIN s.tables : s.tables[i] = s.table
  PROVE  \E i \in Listed(m') : m'.snap.tables[i] = m'.snap.table /\ m'.table = Place(m', i)
<1> DEFINE v == [m EXCEPT !.snap = s, !.search = SearchFor(m, s)]
           at == {i \in Listed(v) : v.snap.tables[i] = v.snap.table}
           i == Min(at)
           w == [v EXCEPT !.table = Place(v, i)]
           x == FromTop(w)
<1>1. m \in ModelType /\ m \in LooseRecord
  BY DEF ViewportInvariant, CursorInRange, ModelType, LooseRecord
<1>2. s \in SnapshotType /\ s.tables \in Seq(Tables) BY SnapshotAssumption DEF SnapshotType
<1>3. s.table \in Tables BY <1>2
<1>4. SearchFor(m, s) \in Searches /\ s.table \in SearchFor(m, s)
  BY <1>1, <1>3, SearchAssumption DEF SearchFor, ModelType
<1>5. v \in LooseType
  <2>1. v \in LooseRecord BY <1>1, <1>4, SetField, Zenon
  <2>2. v.structureTop \in Nat BY <1>1 DEF ModelType
  <2> QED BY <2>1, <2>2 DEF LooseType
<1>6. v.snap = s /\ v.search = SearchFor(m, s) BY <1>1 DEF LooseRecord
<1>7. at # {} /\ at \in SUBSET Nat BY <1>4, <1>5, <1>6, ListSizeTyped DEF Listed
<1>8. i \in Listed(v) /\ s.tables[i] = s.table BY <1>6, <1>7, LeastNatural
<1>9. AtTable(v) = w BY <1>7 DEF AtTable
<1>10. m' = Clamp(x) BY <1>9 DEF Accepted
<1> HIDE DEF v, i
<1>11. Place(v, i) \in Nat /\ Place(v, i) < ListSize(v) BY <1>5, <1>8, PlaceInList
<1>12. w \in LooseType
  <2>1. v \in LooseRecord /\ Place(v, i) \in Int BY <1>5, <1>11 DEF LooseType
  <2>2. w \in LooseRecord BY <2>1, SetField, Zenon
  <2>3. w.tab = v.tab /\ w.structureTop = v.structureTop BY <2>1 DEF LooseRecord
  <2> QED BY <1>5, <2>2, <2>3 DEF LooseType
<1>13. w.snap = v.snap /\ w.search = v.search /\ w.table = Place(v, i)
  BY <1>5 DEF LooseType, LooseRecord
<1> HIDE DEF w
<1>14. x \in LooseType /\ x.snap = s /\ x.search = v.search /\ x.table = Place(v, i)
  BY <1>6, <1>12, <1>13, FromTopTyped DEF FromTop, LooseType, LooseRecord
<1> HIDE DEF x
<1>15. m'.snap = s /\ m'.search = v.search /\ m'.table = Bound(Place(v, i), ListSize(x))
  BY <1>10, <1>14, ClampTyped
<1>16. Listed(x) = Listed(v) /\ Listed(m') = Listed(v) /\ ListSize(x) = ListSize(v)
  BY <1>6, <1>14, <1>15 DEF Listed, ListSize
<1>17. m'.table = Place(v, i)
  BY <1>5, <1>11, <1>15, <1>16, ListSizeTyped DEF Bound, Larger, Smaller
<1>18. Place(m', i) = Place(v, i) BY <1>16 DEF Place
<1> QED BY <1>8, <1>15, <1>16, <1>17, <1>18

LEMMA ClampKeepsSnap ==
  ASSUME NEW u, "snap" \in DOMAIN u
  PROVE  Clamp(u).snap = u.snap
BY DEF Clamp

LEMMA AcceptShows ==
  ASSUME ViewportInvariant, NEW s \in Snapshots, m' = Accepted(m, s)
  PROVE  m'.snap = s
<1> DEFINE changed == TableChanged(m, s)
           v == [m EXCEPT !.snap = s, !.search = IF changed THEN SearchFor(m, s) ELSE @]
           w == IF changed THEN AtTable(v) ELSE v
           x == IF changed \/ s.page # m.snap.page THEN FromTop(w) ELSE w
<1>1. "snap" \in DOMAIN v /\ v.snap = s
  BY DEF ViewportInvariant, CursorInRange, ModelType
<1> HIDE DEF v, changed
<1>2. "snap" \in DOMAIN w /\ w.snap = s BY <1>1 DEF AtTable
<1> HIDE DEF w
<1>3. "snap" \in DOMAIN x /\ x.snap = s BY <1>2 DEF FromTop
<1>4. m' = Clamp(x) BY DEF Accepted, x, w, v, changed
<1> HIDE DEF x
<1> QED BY <1>3, <1>4, ClampKeepsSnap

LEMMA OnlyAcceptShows ==
  ASSUME ViewportInvariant, [Next]_vars, ~Accept
  PROVE  m'.snap = m.snap
<1>1. /\ m \in ModelType /\ m \in LooseRecord
      /\ m.top \in Nat /\ m.row \in Nat /\ m.col \in Nat /\ m.table \in Nat
      /\ m.structureTop \in Nat /\ Columns(m) \in Nat /\ BodyHeight(m) \in Nat \ {0}
  BY InvariantIsLoose, LayoutTyped
  DEF ViewportInvariant, CursorInRange, ModelType, LooseType
<1>2. CASE Resize BY <1>1, <1>2, ClampKeepsSnap DEF Resize, ResizedTo, ModelType
<1>4. CASE Move BY <1>1, <1>4, ClampKeepsSnap DEF Move, Moved, ModelType
<1>5. CASE MoveColumn BY <1>1, <1>5, ClampKeepsSnap DEF MoveColumn, ModelType
<1>6. CASE Wheel BY <1>1, <1>6, ClampKeepsSnap DEF Wheel, ModelType
<1>7. CASE SwitchFocus BY <1>1, <1>7, ClampKeepsSnap DEF SwitchFocus, ModelType
<1>8. CASE ShowTab
  <2>1. PICK t \in {"data", "structure"} :
           m' = Clamp([m EXCEPT !.tab = t, !.focus = "result"])
    BY <1>8 DEF ShowTab
  <2> DEFINE u == [m EXCEPT !.tab = t, !.focus = "result"]
  <2>2. "snap" \in DOMAIN u /\ u.snap = m.snap BY <1>1 DEF ModelType
  <2> HIDE DEF u
  <2>3. Clamp(u).snap = m.snap BY <2>2, ClampKeepsSnap
  <2> QED BY <2>1, <2>3 DEF u
<1>9. CASE Find BY <1>1, <1>9, ClampKeepsSnap DEF Find, ModelType
<1>10. CASE ClearSearch BY <1>1, <1>10, ClampKeepsSnap DEF ClearSearch, ModelType
<1>11. CASE ShowData BY <1>1, <1>11 DEF ShowData, ModelType
<1>12. CASE PaletteFocus BY <1>1, <1>12 DEF PaletteFocus, ModelType
<1>13. CASE ClickSidebar BY <1>1, <1>13 DEF ClickSidebar, ModelType
<1>14. CASE ClickBesideGrid
  <2> DEFINE u == [m EXCEPT !.focus = "result"]
  <2>1. "snap" \in DOMAIN u /\ u.snap = m.snap BY <1>1 DEF ModelType
  <2>2. m' \in {u, Clamp(u)} BY <1>14 DEF ClickBesideGrid
  <2> HIDE DEF u
  <2> QED BY <2>1, <2>2, ClampKeepsSnap
<1>15. CASE ClickEdge BY <1>1, <1>15, ClampKeepsSnap DEF ClickEdge, ModelType
<1>16. CASE ClickColumn
  <2>1. ASSUME NEW c, NEW u, u = [m EXCEPT !.focus = "result", !.col = c]
        PROVE  /\ "snap" \in DOMAIN u /\ u.snap = m.snap
               /\ \A y \in Nat : LET v == [u EXCEPT !.row = y]
                                 IN  "snap" \in DOMAIN v /\ v.snap = m.snap
    BY <1>1, <2>1 DEF ModelType
  <2>5. PICK c \in VisibleColumns(m) :
          \E u : /\ u = [m EXCEPT !.focus = "result", !.col = c]
                 /\ \/ m' = u
                    \/ m' = Clamp(u)
                    \/ \E y \in 0..(BodyHeight(m) - 1) :
                         m' = Clamp([u EXCEPT !.row = m.top + y])
    BY <1>16 DEF ClickColumn
  <2>2. PICK u : /\ u = [m EXCEPT !.focus = "result", !.col = c]
                 /\ \/ m' = u
                    \/ m' = Clamp(u)
                    \/ \E y \in 0..(BodyHeight(m) - 1) :
                         m' = Clamp([u EXCEPT !.row = m.top + y])
    BY <2>5
  <2>3. CASE m' = u \/ m' = Clamp(u)
    <3>1. "snap" \in DOMAIN u /\ u.snap = m.snap BY <2>1, <2>2
    <3>2. Clamp(u).snap = m.snap BY <3>1, ClampKeepsSnap
    <3> QED BY <2>3, <3>1, <3>2
  <2>4. ASSUME NEW y \in 0..(BodyHeight(m) - 1), m' = Clamp([u EXCEPT !.row = m.top + y])
        PROVE  m'.snap = m.snap
    <3> DEFINE v == [u EXCEPT !.row = m.top + y]
    <3>1. m.top + y \in Nat BY <1>1
    <3>2. "snap" \in DOMAIN v /\ v.snap = m.snap BY <2>1, <2>2, <3>1
    <3> HIDE DEF v
    <3>3. Clamp(v).snap = m.snap BY <3>2, ClampKeepsSnap
    <3> QED BY <2>4, <3>3 DEF v
  <2> QED BY <2>2, <2>3, <2>4
<1>17. CASE UNCHANGED vars BY <1>17 DEF vars
<1> QED
  BY <1>2, <1>4, <1>5, <1>6, <1>7, <1>8, <1>9, <1>10, <1>11, <1>12, <1>13, <1>14, <1>15,
     <1>16, <1>17
  DEF Next, OpenTable, FollowForeignKey, SubmitSQL

(* A table that comes on view is selected in the list that names it. *)
THEOREM SidebarAlwaysFollows == Spec => SidebarFollows
<1>1. Init => ViewportInvariant BY InitFits
<1>2. ViewportInvariant /\ [Next]_vars => ViewportInvariant' BY StepFits DEF Fits
<1> DEFINE Follows ==
             TableChanged(m, m'.snap)
                 /\ (\E i \in DOMAIN m'.snap.tables : m'.snap.tables[i] = m'.snap.table)
               => \E i \in Listed(m') :
                    m'.snap.tables[i] = m'.snap.table /\ m'.table = Place(m', i)
<1>3. ASSUME ViewportInvariant, [Next]_vars PROVE Follows
  <2> SUFFICES ASSUME TableChanged(m, m'.snap),
                      \E i \in DOMAIN m'.snap.tables : m'.snap.tables[i] = m'.snap.table
               PROVE  \E i \in Listed(m') :
                        m'.snap.tables[i] = m'.snap.table /\ m'.table = Place(m', i)
    OBVIOUS
  <2>1. PICK s \in Snapshots : m' = Accepted(m, s)
    BY <1>3, OnlyAcceptShows DEF Accept, TableChanged
  <2>2. m'.snap = s BY <1>3, <2>1, AcceptShows
  <2> QED BY <1>3, <2>1, <2>2, AcceptFollows
<1>4. ViewportInvariant /\ [Next]_vars => [Follows]_vars BY <1>3
<1> HIDE DEF Follows
<1>5. Spec => [][Follows]_vars BY <1>1, <1>2, <1>4, PTL DEF Spec
<1> QED BY <1>5 DEF SidebarFollows, Follows
=============================================================================
