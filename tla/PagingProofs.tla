---------------------------- MODULE PagingProofs ----------------------------
(***************************************************************************)
(* Proofs about Paging, for every table that a database can hold, every    *)
(* request and page size: where the store does not warn, the order of the  *)
(* rows is the same for every query, so that pages join; the demo answers  *)
(* as MySQL does.                                                          *)
(***************************************************************************)
EXTENDS Paging, TLAPS, FunctionTheorems, FiniteSetTheorems, SequenceTheorems

-----------------------------------------------------------------------------
(* Numbers *)

LEMMA LeastNumber ==
  ASSUME NEW S \in SUBSET Nat, S # {}
  PROVE  Min(S) \in S /\ \A y \in S : Min(S) =< y
<1> DEFINE less == {p \in Nat \X Nat : p[1] < p[2]}
<1>1. IsWellFoundedOn(less, Nat) BY NatLessThanWellFounded DEF OpToRel
<1> HIDE DEF less
<1>2. PICK x \in S : \A y \in S : <<y, x>> \notin less BY <1>1, WFMin
<1>3. ASSUME NEW y \in S PROVE x =< y
  <2>1. <<y, x>> \notin {p \in Nat \X Nat : p[1] < p[2]} BY <1>2 DEF less
  <2> QED BY <2>1
<1> QED BY <1>3 DEF Min

-----------------------------------------------------------------------------
(* The indexes that Schema finds *)

(* What TablesAssumption says of a table. *)
Typed(t) ==
    /\ t.columns \in Seq(Columns) /\ t.columns # <<>>
    /\ t.statistics \in Seq(Part)
    /\ t.rows \in [RowIds -> Row]

LEMMA Statistics ==
  ASSUME NEW t, Typed(t)
  PROVE  /\ Len(t.statistics) \in Nat
         /\ \A i \in 1..Len(t.statistics) :
               /\ t.statistics[i] \in Part
               /\ t.statistics[i].column \in Columns \cup {Nothing}
<1>1. t.statistics \in Seq(Part) BY DEF Typed
<1>2. Len(t.statistics) \in Nat /\ \A i \in 1..Len(t.statistics) : t.statistics[i] \in Part
  BY <1>1, LenProperties, ElementOfSeq
<1> QED BY <1>2 DEF Part

(* The parts of an index are the rows from where it begins on. *)
LEMMA PartsAreNext ==
  ASSUME NEW t, Typed(t), NEW i \in Begins(t)
  PROVE  /\ Cardinality(Parts(t, i)) \in Nat \ {0}
         /\ Parts(t, i) = i..(i + Cardinality(Parts(t, i)) - 1)
<1> DEFINE n == Len(t.statistics)
           P == Parts(t, i)
           Rest == {k \in Nat : i + k \notin P}
<1>1. n \in Nat /\ i \in 1..n BY Statistics DEF Begins
<1>2. P \subseteq i..n BY DEF Parts
<1>3. i \in P BY <1>1 DEF Parts
<1>4. ASSUME NEW j \in P, NEW k \in i..j PROVE k \in P
  <2>1. j \in i..n /\ \A l \in i..j : t.statistics[l].index = t.statistics[i].index BY DEF Parts
  <2>2. k \in i..n /\ \A l \in i..k : l \in i..j BY <1>1, <2>1
  <2> QED BY <2>1, <2>2 DEF Parts
<1> HIDE DEF P
<1>5. n + 1 \in Rest BY <1>1, <1>2
<1> DEFINE m == Min(Rest)
<1>6. m \in Rest /\ \A y \in Rest : m =< y BY <1>5, LeastNumber
<1> HIDE DEF m
<1>7. m # 0 BY <1>1, <1>3, <1>6
<1>8. ASSUME NEW k \in i..(i + m - 1) PROVE k \in P
  <2>1. k - i \in Nat /\ k - i < m /\ i + (k - i) = k BY <1>1, <1>6
  <2>2. k - i \notin Rest BY <1>6, <2>1
  <2> QED BY <2>1, <2>2
<1>9. ASSUME NEW k \in P PROVE k \in i..(i + m - 1)
  <2>1. k \in i..n BY <1>2
  <2>2. i + m \notin i..k BY <1>4, <1>6
  <2> QED BY <1>1, <1>6, <2>1, <2>2
<1>10. P = i..(i + m - 1) BY <1>8, <1>9
<1>11. Cardinality(P) = m BY <1>1, <1>6, <1>7, <1>10, FS_Interval
<1> QED BY <1>6, <1>7, <1>10, <1>11 DEF P

(* The columns of an index are those of all its parts. *)
LEMMA IndexHasAllParts ==
  ASSUME NEW t, Typed(t), NEW i \in Begins(t),
         SoundIndex(t, t.statistics[i].index)
  PROVE  /\ IndexAt(t, i).columns \in Seq(Columns \cup {Nothing})
         /\ \A j \in 1..Len(t.statistics) :
               t.statistics[j].index = t.statistics[i].index =>
                  \E k \in 1..Len(IndexAt(t, i).columns) :
                     IndexAt(t, i).columns[k] = t.statistics[j].column
<1> DEFINE s == t.statistics
           c == Cardinality(Parts(t, i))
           cols == [k \in 1..c |-> s[i + k - 1].column]
<1>1. Len(s) \in Nat /\ i \in 1..Len(s) BY Statistics DEF Begins
<1>2. c \in Nat \ {0} /\ Parts(t, i) = i..(i + c - 1) BY PartsAreNext
<1>3. Parts(t, i) \subseteq i..Len(s) BY DEF Parts
<1> HIDE DEF c
<1>4. \A k \in 1..c : i + k - 1 \in 1..Len(s) BY <1>1, <1>2, <1>3
<1>5. cols \in [1..c -> Columns \cup {Nothing}] BY <1>4, Statistics
<1>6. cols \in Seq(Columns \cup {Nothing}) /\ Len(cols) = c BY <1>2, <1>5
<1>7. IndexAt(t, i).columns = cols BY DEF IndexAt, c
<1>8. ASSUME NEW j \in 1..Len(s), s[j].index = s[i].index
      PROVE  \E k \in 1..c : cols[k] = s[j].column
  <2> DEFINE parts == {l \in 1..Len(s) : s[l].index = s[i].index}
  <2>1. i \in parts /\ j \in parts BY <1>1, <1>8
  <2>2. \A l \in i..j : l \in parts BY <2>1 DEF SoundIndex
  <2>3. \A l \in j..i : l \in parts BY <2>1 DEF SoundIndex
  <2>4. j >= i
    <3>1. SUFFICES ASSUME j < i PROVE FALSE BY <1>1
    <3>2. i - 1 \in j..i /\ i # 1 BY <1>1, <3>1
    <3>3. s[i - 1].index = s[i].index BY <2>3, <3>2
    <3> QED BY <3>2, <3>3 DEF Begins
  <2>5. j \in Parts(t, i) BY <1>1, <2>2, <2>4 DEF Parts
  <2>6. j - i + 1 \in 1..c /\ i + (j - i + 1) - 1 = j BY <1>1, <1>2, <2>5
  <2> QED BY <2>6
<1> QED BY <1>6, <1>7, <1>8

-----------------------------------------------------------------------------
(* The order of the rows *)

LEMMA KeyIsAnIndex ==
  ASSUME NEW t, Typed(t), Deterministic(t)
  PROVE  \E i \in Begins(t) : /\ Usable(t, IndexAt(t, i))
                              /\ SortKey(t) = IndexAt(t, i).columns
<1> DEFINE usable == {i \in Begins(t) : Usable(t, IndexAt(t, i))}
           primary == {i \in usable : t.statistics[i].index = "PRIMARY"}
<1>1. usable \in SUBSET Nat /\ primary \in SUBSET Nat BY Statistics DEF Begins
<1>2. CASE primary # {}
  <2>1. Min(primary) \in primary BY <1>1, <1>2, LeastNumber
  <2>2. SortKey(t) = IndexAt(t, Min(primary)).columns BY <1>2 DEF SortKey
  <2> QED BY <2>1, <2>2
<1>3. CASE primary = {} /\ usable # {}
  <2>1. Min(usable) \in usable BY <1>1, <1>3, LeastNumber
  <2>2. SortKey(t) = IndexAt(t, Min(usable)).columns BY <1>3 DEF SortKey
  <2> QED BY <2>1, <2>2
<1>4. CASE primary = {} /\ usable = {}
  <2>1. SortKey(t) = <<>> BY <1>4 DEF SortKey
  <2> QED BY <2>1 DEF Deterministic
<1> QED BY <1>2, <1>3, <1>4

(* No two rows are equal in all columns of the key. *)
LEMMA KeyDistinguishes ==
  ASSUME NEW t, Typed(t), Sound(t), Deterministic(t),
         NEW m \in RowIds, NEW n \in RowIds, m # n
  PROVE  /\ SortKey(t) \in Seq(Columns)
         /\ \E k \in 1..Len(SortKey(t)) : t.rows[m][SortKey(t)[k]] # t.rows[n][SortKey(t)[k]]
<1>1. PICK i \in Begins(t) : /\ Usable(t, IndexAt(t, i))
                             /\ SortKey(t) = IndexAt(t, i).columns
  BY KeyIsAnIndex
<1> DEFINE s == t.statistics
           x == s[i].index
           key == IndexAt(t, i).columns
           parts == {j \in 1..Len(s) : s[j].index = x}
           over == {s[j].column : j \in parts}
<1>2. i \in parts BY DEF Begins
<1>3. SoundIndex(t, x) BY <1>2 DEF Sound
<1>4. /\ key \in Seq(Columns \cup {Nothing})
      /\ \A j \in parts : \E k \in 1..Len(key) : key[k] = s[j].column
  BY <1>3, IndexHasAllParts
<1>5. s[i].unique /\ \A k \in 1..Len(key) : key[k] \in Known(t) \ t.nullable
  BY <1>1 DEF Usable, IndexAt
<1>6. Known(t) \subseteq Columns
  BY LenProperties, ElementOfSeq DEF Typed, Known
<1>7. Len(key) \in Nat /\ key \in [1..Len(key) -> Columns]
  BY <1>4, <1>5, <1>6, LenProperties
<1>8. key \in Seq(Columns) BY <1>7
<1>9. over \subseteq Known(t) \ t.nullable BY <1>4, <1>5
<1>10. DOMAIN t.rows = RowIds BY DEF Typed
<1>11. PICK c \in over : t.rows[m][c] # t.rows[n][c] \/ t.rows[m][c] = Null
  BY <1>2, <1>3, <1>5, <1>9, <1>10 DEF SoundIndex
<1>12. t.rows[m][c] # Null BY <1>9, <1>10 DEF Sound
<1>13. PICK j \in parts : c = s[j].column OBVIOUS
<1>14. PICK k \in 1..Len(key) : key[k] = c BY <1>4, <1>13
<1> QED BY <1>1, <1>8, <1>11, <1>12, <1>14

LEMMA OrderByTyped ==
  ASSUME NEW t, Typed(t), Sound(t), Deterministic(t), SortKey(t) \in Seq(Columns),
         NEW r, r.sort \in Columns \cup {Nothing}
  PROVE  /\ OrderBy(t, r) \in Seq(Columns)
         /\ \A k \in 1..Len(SortKey(t)) :
               \E l \in 1..Len(OrderBy(t, r)) : OrderBy(t, r)[l] = SortKey(t)[k]
<1> DEFINE key == SortKey(t)
<1>1. CASE r.sort = Nothing
  <2>1. OrderBy(t, r) = <<>> \o key BY <1>1 DEF OrderBy
  <2>2. OrderBy(t, r) = key BY <2>1, ConcatEmptySeq
  <2> QED BY <2>2
<1>2. CASE r.sort # Nothing
  <2>1. OrderBy(t, r) = <<r.sort>> \o key BY <1>2 DEF OrderBy
  <2>2. <<r.sort>> \in Seq(Columns) /\ Len(<<r.sort>>) = 1 BY <1>2
  <2>3. Len(key) \in Nat BY LenProperties
  <2> HIDE DEF key
  <2>4. /\ OrderBy(t, r) \in Seq(Columns)
        /\ Len(OrderBy(t, r)) = 1 + Len(key)
        /\ \A l \in 1..(1 + Len(key)) :
              OrderBy(t, r)[l] = IF l <= 1 THEN <<r.sort>>[l] ELSE key[l - 1]
    BY <2>1, <2>2, ConcatProperties DEF key
  <2>5. ASSUME NEW k \in 1..Len(key)
        PROVE  1 + k \in 1..(1 + Len(key)) /\ OrderBy(t, r)[1 + k] = key[k]
    BY <2>3, <2>4
  <2> QED BY <2>4, <2>5 DEF key
<1> QED BY <1>1, <1>2

(* ORDER BY tells any two rows apart. *)
LEMMA OrderIsTotal ==
  ASSUME NEW t, Typed(t), Sound(t), Deterministic(t),
         NEW r, r.sort \in Columns \cup {Nothing},
         NEW m \in RowIds, NEW n \in RowIds, m # n
  PROVE  Before(t, r, m, n) \/ Before(t, r, n, m)
<1> DEFINE by == OrderBy(t, r)
           D == {k \in 1..Len(by) : t.rows[m][by[k]] # t.rows[n][by[k]]}
<1>1. by \in Seq(Columns) /\ D # {}
  <2>1. SortKey(t) \in Seq(Columns) BY KeyDistinguishes
  <2>2. PICK k \in 1..Len(SortKey(t)) :
           t.rows[m][SortKey(t)[k]] # t.rows[n][SortKey(t)[k]]
    BY KeyDistinguishes
  <2>3. PICK l \in 1..Len(by) : by[l] = SortKey(t)[k] BY <2>1, OrderByTyped
  <2> QED BY <2>1, <2>2, <2>3, OrderByTyped
<1>2. Len(by) \in Nat /\ D \in SUBSET Nat BY <1>1, LenProperties
<1> DEFINE k == Min(D)
<1>3. k \in D /\ \A y \in D : k =< y BY <1>1, <1>2, LeastNumber
<1> HIDE DEF k
<1>4. ASSUME NEW l \in 1..(k - 1) PROVE t.rows[m][by[l]] = t.rows[n][by[l]]
  <2>1. l \in 1..Len(by) /\ ~(k =< l) BY <1>2, <1>3
  <2> QED BY <1>3, <2>1
<1>5. by[k] \in Columns BY <1>1, <1>3, ElementOfSeq
<1>6. t.rows[m] \in Row /\ t.rows[n] \in Row BY DEF Typed
<1>7. /\ t.rows[m][by[k]] \in Values \cup {Null} /\ t.rows[n][by[k]] \in Values \cup {Null}
      /\ t.rows[m][by[k]] # t.rows[n][by[k]]
  BY <1>3, <1>5, <1>6 DEF Row
<1>8. Less(t.rows[m][by[k]], t.rows[n][by[k]]) \/ Less(t.rows[n][by[k]], t.rows[m][by[k]])
  <2>1. ASSUME NEW v \in Values \cup {Null}, NEW w \in Values \cup {Null}, v # w
        PROVE  Less(v, w) \/ Less(w, v)
    <3>1. (v \in Int /\ w \in Int) \/ v = Null \/ w = Null BY RowsAssumption
    <3> QED BY <2>1, <3>1 DEF Less
  <2> QED BY <1>7, <2>1
<1>9. k \in 1..Len(by) BY <1>3
<1> QED BY <1>4, <1>8, <1>9 DEF Before

LEMMA OrdersTyped ==
  ASSUME NEW t, Typed(t), NEW r, NEW o \in Orders(t, r)
  PROVE  /\ Cardinality(Matching(t, r)) \in Nat
         /\ o \in Bijection(1..Cardinality(Matching(t, r)), Matching(t, r))
         /\ o \in Seq(RowIds) /\ Len(o) = Cardinality(Matching(t, r))
<1> DEFINE S == Matching(t, r)
           c == Cardinality(S)
<1>1. DOMAIN t.rows = RowIds BY DEF Typed
<1>2. S \subseteq RowIds BY <1>1 DEF Matching
<1>3. IsFiniteSet(S) /\ c \in Nat BY <1>2, RowsAssumption, FS_Subset, FS_CardinalityType
<1> HIDE DEF S
<1>4. /\ o \in [1..c -> S]
      /\ \A m, n \in DOMAIN o : m < n => o[m] # o[n]
  BY DEF Orders, S
<1> HIDE DEF c
<1>5. \A m, n \in 1..c : o[m] = o[n] => m = n BY <1>3, <1>4
<1>6. o \in Injection(1..c, S) BY <1>4, <1>5, Fun_IsInj
<1>7. IsFiniteSet(1..c) /\ Cardinality(1..c) = c BY <1>3, FS_Interval
<1>8. o \in Surjection(1..c, S) BY <1>3, <1>6, <1>7, FS_Injection DEF c
<1>9. o \in Bijection(1..c, S) BY <1>6, <1>8, Fun_IsBij
<1>10. o \in [1..c -> RowIds] BY <1>2, <1>4
<1>11. o \in Seq(RowIds) /\ Len(o) = c BY <1>3, <1>10
<1> QED BY <1>3, <1>9, <1>11 DEF c, S

LEMMA OneToOne ==
  ASSUME NEW S, NEW T, NEW f \in Bijection(S, T)
  PROVE  /\ f \in [S -> T] /\ \A a, b \in S : f[a] = f[b] => a = b
         /\ \A x \in T : \E a \in S : f[a] = x
BY Fun_BijectionProperties

LEMMA SameFunction ==
  ASSUME NEW S, NEW T, NEW f \in [S -> T], NEW g \in [S -> T], \A x \in S : f[x] = g[x]
  PROVE  f = g
OBVIOUS

(* Two queries for the same rows get them in the same order. *)
LEMMA OneOrder ==
  ASSUME NEW t, Typed(t), Sound(t), Deterministic(t),
         NEW r, r.sort \in Columns \cup {Nothing},
         NEW o \in Orders(t, r), NEW u \in Orders(t, r)
  PROVE  o = u
<1> DEFINE S == Matching(t, r)
           c == Cardinality(S)
           D == {n \in 1..c : o[n] # u[n]}
<1>1. c \in Nat /\ o \in Bijection(1..c, S) /\ u \in Bijection(1..c, S) BY OrdersTyped
<1>2. /\ o \in [1..c -> S] /\ u \in [1..c -> S]
      /\ \A m, n \in 1..c : o[m] = o[n] => m = n
      /\ \A m, n \in 1..c : u[m] = u[n] => m = n
      /\ \A x \in S : (\E n \in 1..c : o[n] = x) /\ (\E n \in 1..c : u[n] = x)
  <2> HIDE DEF S, c
  <2>1. /\ o \in [1..c -> S] /\ \A m, n \in 1..c : o[m] = o[n] => m = n
        /\ \A x \in S : \E n \in 1..c : o[n] = x
    <3>1. o \in Bijection(1..c, S) BY <1>1
    <3> QED BY <3>1 DEF Bijection, Injection, Surjection, IsInjective
  <2>2. u \in Bijection(1..c, S) BY <1>1
  <2>3. /\ u \in [1..c -> S] /\ \A m, n \in 1..c : u[m] = u[n] => m = n
        /\ \A x \in S : \E n \in 1..c : u[n] = x
    BY <1>1, <2>2 DEF Bijection, Injection, Surjection, IsInjective
  <2> QED BY <2>1, <2>3
<1>3. /\ \A m, n \in 1..c : m < n => ~Before(t, r, o[n], o[m])
      /\ \A m, n \in 1..c : m < n => ~Before(t, r, u[n], u[m])
  BY <1>2 DEF Orders
<1>4. S \subseteq RowIds BY DEF Typed, Matching
<1>5. SUFFICES ASSUME D # {} PROVE FALSE
  <2>1. ASSUME D = {} PROVE o = u
    <3>1. \A n \in 1..c : o[n] = u[n] BY <2>1
    <3> HIDE DEF S, c, D
    <3>2. o \in [1..c -> S] /\ u \in [1..c -> S] BY <1>2
    <3> QED BY <1>1, <3>1, <3>2
  <2> QED BY <2>1
<1> DEFINE n == Min(D)
<1>6. n \in D /\ \A y \in D : n =< y
  <2>1. D \in SUBSET Nat BY <1>1
  <2> QED BY <1>5, <2>1, LeastNumber
<1> HIDE DEF n, S, c
<1>7. n \in 1..c /\ o[n] # u[n] /\ o[n] \in S /\ u[n] \in S BY <1>2, <1>6
<1>8. \A l \in 1..c : l < n => o[l] = u[l] BY <1>1, <1>6
<1>9. PICK a \in 1..c : o[a] = u[n] BY <1>2, <1>7
<1>10. PICK b \in 1..c : u[b] = o[n] BY <1>2, <1>7
<1>11. n < a
  <2>1. a # n BY <1>7, <1>9
  <2>2. ~(a < n)
    <3>1. SUFFICES ASSUME a < n PROVE FALSE OBVIOUS
    <3>2. u[a] = u[n] BY <1>8, <1>9, <3>1
    <3> QED BY <1>2, <1>7, <2>1, <3>2
  <2> QED BY <1>1, <1>7, <2>1, <2>2
<1>12. n < b
  <2>1. b # n BY <1>7, <1>10
  <2>2. ~(b < n)
    <3>1. SUFFICES ASSUME b < n PROVE FALSE OBVIOUS
    <3>2. o[b] = o[n] BY <1>8, <1>10, <3>1
    <3> QED BY <1>2, <1>7, <2>1, <3>2
  <2> QED BY <1>1, <1>7, <2>1, <2>2
<1>13. ~Before(t, r, u[n], o[n]) BY <1>3, <1>7, <1>9, <1>11
<1>14. ~Before(t, r, o[n], u[n]) BY <1>3, <1>7, <1>10, <1>12
<1> QED BY <1>4, <1>7, <1>13, <1>14, OrderIsTotal

(* The order does not depend on where a page begins. *)
LEMMA OrderOfAnyPage ==
  ASSUME NEW t, NEW r, NEW q,
         q.filter = r.filter, q.sort = r.sort, q.desc = r.desc
  PROVE  Matching(t, q) = Matching(t, r) /\ Orders(t, q) = Orders(t, r)
<1>1. Matching(t, q) = Matching(t, r) BY DEF Matching
<1>2. OrderBy(t, q) = OrderBy(t, r) BY DEF OrderBy
<1>3. \A i, j : Before(t, q, i, j) = Before(t, r, i, j) BY <1>2 DEF Before
<1> QED BY <1>1, <1>3 DEF Orders

-----------------------------------------------------------------------------
(* Pages *)

Fewer(m, n) == IF m =< n THEN m ELSE n

LEMMA Stretch ==
  ASSUME NEW o \in Seq(RowIds), NEW m \in Nat, NEW n \in Nat, n =< Len(o)
  PROVE  /\ SubSeq(o, m + 1, n) \in Seq(RowIds)
         /\ Len(SubSeq(o, m + 1, n)) = IF m < n THEN n - m ELSE 0
         /\ \A k \in 1..(n - m) : SubSeq(o, m + 1, n)[k] = o[m + k]
OBVIOUS

(* The rows from the offset on, as many as there are, but no more than a page. *)
PageLength(r, count) == IF r.offset >= count THEN 0 ELSE Fewer(r.limit, count - r.offset)

LEMMA PageIsPartOfOrder ==
  ASSUME NEW o \in Seq(RowIds), NEW r, r.limit \in Nat \ {0}, r.offset \in Nat
  PROVE  LET p == Collected(Window(o, r), r)
         IN  /\ p.rows \in Seq(RowIds)
             /\ Len(p.rows) = PageLength(r, Len(o))
             /\ \A k \in 1..Len(p.rows) : p.rows[k] = o[r.offset + k]
             /\ p.more <=> r.offset + r.limit < Len(o)
             /\ p \in [rows : Seq(RowIds), more : BOOLEAN]
<1> DEFINE count == Len(o)
           end == IF count =< r.offset + Limit(r) THEN count ELSE r.offset + Limit(r)
           w == SubSeq(o, r.offset + 1, end)
           first == SubSeq(w, 1, r.limit)
           p == Collected(Window(o, r), r)
<1>1. count \in Nat /\ Limit(r) = r.limit + 1 /\ end \in Nat /\ end =< count
  BY LenProperties DEF Limit
<1>2. \A k \in (r.offset + 1)..end : o[k] \in RowIds BY <1>1, ElementOfSeq
<1>3. /\ w \in Seq(RowIds)
      /\ Len(w) = IF r.offset < end THEN end - r.offset ELSE 0
      /\ \A k \in 1..(end - r.offset) : w[k] = o[r.offset + k]
  BY <1>1, Stretch
<1>4. Window(o, r) = w BY DEF Window
<1> HIDE DEF w
<1>5. Len(w) > r.limit <=> r.offset + r.limit < count BY <1>1, <1>3
<1>6. CASE Len(w) > r.limit
  <2>1. p = [rows |-> first, more |-> TRUE] BY <1>4, <1>6 DEF Collected
  <2>3. /\ first \in Seq(RowIds) /\ Len(first) = r.limit
        /\ \A k \in 1..r.limit : first[k] = w[k]
    BY <1>3, <1>6, Stretch
  <2> HIDE DEF first
  <2>4. r.limit = PageLength(r, count) BY <1>1, <1>5, <1>6 DEF PageLength, Fewer
  <2>5. \A k \in 1..r.limit : w[k] = o[r.offset + k]
    <3>1. r.limit =< end - r.offset BY <1>1, <1>5, <1>6
    <3> QED BY <1>1, <1>3, <3>1
  <2>6. p.more <=> r.offset + r.limit < count BY <1>5, <1>6, <2>1
  <2>7. p.rows = first /\ p \in [rows : Seq(RowIds), more : BOOLEAN] BY <2>1, <2>3
  <2> QED BY <2>3, <2>4, <2>5, <2>6, <2>7
<1>7. CASE ~(Len(w) > r.limit)
  <2>1. p = [rows |-> w, more |-> FALSE] BY <1>4, <1>7 DEF Collected
  <2>2. Len(w) = PageLength(r, count) BY <1>1, <1>3, <1>5, <1>7 DEF PageLength, Fewer
  <2>3. \A k \in 1..Len(w) : w[k] = o[r.offset + k] BY <1>1, <1>3
  <2>4. p.more <=> r.offset + r.limit < count BY <1>5, <1>7, <2>1
  <2>5. p.rows = w /\ p \in [rows : Seq(RowIds), more : BOOLEAN] BY <1>3, <2>1
  <2> QED BY <1>3, <2>2, <2>3, <2>4, <2>5
<1> QED BY <1>6, <1>7

LEMMA AnswerOfMySQL ==
  ASSUME NEW t, Typed(t), NEW r, r.limit \in Nat \ {0}, r.offset \in Nat,
         NEW p \in MySQLBrowse(t, r)
  PROVE  \E o \in Orders(t, r) :
            /\ p.rows \in Seq(RowIds)
            /\ Len(p.rows) = PageLength(r, Len(o))
            /\ \A k \in 1..Len(p.rows) : p.rows[k] = o[r.offset + k]
            /\ p.more <=> r.offset + r.limit < Len(o)
<1>1. PICK o \in Orders(t, r) : p = Collected(Window(o, r), r) BY DEF MySQLBrowse
<1>2. o \in Seq(RowIds) BY OrdersTyped
<1> QED BY <1>1, <1>2, PageIsPartOfOrder

-----------------------------------------------------------------------------
(* The demo *)

(* The elements of a finite set can be listed in any strict total order of them:
   each takes the place that the number of those before it leaves. *)
LEMMA Listing ==
  ASSUME NEW S, IsFiniteSet(S), NEW R,
         \A x \in S : <<x, x>> \notin R,
         \A x, y, z \in S : <<x, y>> \in R /\ <<y, z>> \in R => <<x, z>> \in R,
         \A x, y \in S : x = y \/ <<x, y>> \in R \/ <<y, x>> \in R
  PROVE  \E o \in [1..Cardinality(S) -> S] :
            \A m, n \in 1..Cardinality(S) : m < n => <<o[m], o[n]>> \in R
<1> DEFINE c == Cardinality(S)
           below(x) == {y \in S : <<y, x>> \in R}
           rank == [x \in S |-> Cardinality(below(x)) + 1]
<1>1. c \in Nat BY FS_CardinalityType
<1>2. ASSUME NEW x \in S PROVE IsFiniteSet(below(x)) /\ Cardinality(below(x)) \in Nat
  BY FS_Subset, FS_CardinalityType
<1>3. ASSUME NEW x \in S PROVE rank[x] \in 1..c
  <2>1. IsFiniteSet(S \ {x}) /\ Cardinality(S \ {x}) = c - 1 BY FS_RemoveElement
  <2>2. below(x) \subseteq S \ {x} OBVIOUS
  <2>3. Cardinality(below(x)) =< Cardinality(S \ {x})
    <3> HIDE DEF below
    <3> QED BY <2>1, <2>2, FS_Subset
  <2> QED BY <1>1, <1>2, <2>1, <2>3
<1>4. ASSUME NEW x \in S, NEW y \in S, <<x, y>> \in R PROVE rank[x] < rank[y]
  <2>1. below(x) \subseteq below(y) BY <1>4
  <2>2. x \in below(y) /\ x \notin below(x) BY <1>4
  <2>3. below(x) # below(y) BY <2>2
  <2>4. Cardinality(below(x)) =< Cardinality(below(y))
        /\ Cardinality(below(x)) # Cardinality(below(y))
    <3> HIDE DEF below
    <3> QED BY <1>2, <2>1, <2>3, FS_Subset
  <2> QED BY <1>2, <2>4
<1>5. rank \in [S -> 1..c] BY <1>3
<1> HIDE DEF rank, below
<1>6. ASSUME NEW x \in S, NEW y \in S, rank[x] = rank[y] PROVE x = y
  <2>1. rank[x] \in Int /\ rank[y] \in Int BY <1>5
  <2>2. ~(rank[x] < rank[y]) /\ ~(rank[y] < rank[x]) BY <1>6, <2>1
  <2> QED BY <1>4, <2>2
<1>7. rank \in Injection(S, 1..c) BY <1>5, <1>6, Fun_IsInj
<1>8. IsFiniteSet(1..c) /\ Cardinality(1..c) = c BY <1>1, FS_Interval
<1>9. rank \in Surjection(S, 1..c) BY <1>7, <1>8, FS_Injection
<1>10. \A n \in 1..c : \E x \in S : rank[x] = n BY <1>9 DEF Surjection
<1> DEFINE o == [n \in 1..c |-> CHOOSE x \in S : rank[x] = n]
<1>11. ASSUME NEW n \in 1..c PROVE o[n] \in S /\ rank[o[n]] = n BY <1>10
<1>12. o \in [1..c -> S] BY <1>11
<1>13. ASSUME NEW m \in 1..c, NEW n \in 1..c, m < n PROVE <<o[m], o[n]>> \in R
  <2> HIDE DEF o
  <2>1. o[m] # o[n] BY <1>11, <1>13
  <2>2. <<o[n], o[m]>> \notin R
    <3>1. SUFFICES ASSUME <<o[n], o[m]>> \in R PROVE FALSE OBVIOUS
    <3>2. rank[o[n]] < rank[o[m]] BY <1>4, <1>11, <3>1
    <3> QED BY <1>1, <1>11, <1>13, <3>2
  <2> QED BY <1>11, <2>1, <2>2
<1> QED BY <1>12, <1>13

LEMMA DemoKey ==
  ASSUME NEW t, Typed(t), Sound(t), HasDemoKey(t)
  PROVE  Deterministic(t) /\ SortKey(t) = <<t.columns[1]>>
<1> DEFINE s == t.statistics
           usable == {j \in Begins(t) : Usable(t, IndexAt(t, j))}
           primary == {j \in usable : s[j].index = "PRIMARY"}
<1>1. PICK i \in 1..Len(s) :
         /\ s[i].column = t.columns[1]
         /\ \A j \in 1..Len(s) : s[j].index = "PRIMARY" <=> i = j
  BY DEF HasDemoKey
<1>2. Len(s) \in Nat /\ i \in 1..Len(s) /\ s[i].index = "PRIMARY" BY <1>1, Statistics
<1>3. i \in Begins(t)
  <2>1. i = 1 \/ (i - 1 \in 1..Len(s) /\ i - 1 # i) BY <1>2
  <2> QED BY <1>1, <1>2, <2>1 DEF Begins
<1>4. Parts(t, i) = {i} BY <1>1, <1>2 DEF Parts
<1>5. Cardinality(Parts(t, i)) = 1 BY <1>4, FS_Singleton
<1>6. IndexAt(t, i).columns = [k \in 1..1 |-> s[i + k - 1].column]
  BY <1>5 DEF IndexAt
<1>7. IndexAt(t, i).columns = <<t.columns[1]>>
  <2>1. \A k \in 1..1 : i + k - 1 = i BY <1>2
  <2> QED BY <1>1, <1>6, <2>1
<1>8. SoundIndex(t, "PRIMARY") BY <1>2 DEF Sound
<1>9. s[i].unique /\ s[i].column \in Known(t) \ t.nullable
  <2> DEFINE parts == {j \in 1..Len(s) : s[j].index = "PRIMARY"}
             over == {s[j].column : j \in parts}
  <2>1. i \in parts BY <1>2
  <2>2. s[i].unique /\ over \subseteq Known(t) \ t.nullable BY <1>8, <2>1 DEF SoundIndex
  <2> QED BY <2>1, <2>2
<1>10. Usable(t, IndexAt(t, i))
  <2>1. IndexAt(t, i).unique BY <1>9 DEF IndexAt
  <2>2. Len(<<t.columns[1]>>) = 1 /\ <<t.columns[1]>>[1] = t.columns[1] /\ <<t.columns[1]>> # <<>>
    OBVIOUS
  <2>3. t.columns[1] \in Known(t) \ t.nullable BY <1>1, <1>9
  <2>4. \A k \in 1..1 : k = 1 OBVIOUS
  <2> QED BY <1>7, <2>1, <2>2, <2>3, <2>4 DEF Usable
<1>11. primary = {i} BY <1>1, <1>2, <1>3, <1>10 DEF Begins
<1>12. Min(primary) = i
  <2>1. primary \in SUBSET Nat /\ primary # {} BY <1>2, <1>11
  <2> QED BY <1>11, <2>1, LeastNumber
<1>13. SortKey(t) = <<t.columns[1]>> BY <1>7, <1>11, <1>12 DEF SortKey
<1> QED BY <1>13 DEF Deterministic

LEMMA ComparesAsLess ==
  ASSUME NEW v \in Values \cup {Null}, NEW w \in Values \cup {Null}
  PROVE  /\ Compare(v, w) \in {-1, 0, 1}
         /\ Compare(v, w) = 0 <=> v = w
         /\ Compare(v, w) < 0 <=> Less(v, w)
         /\ Compare(v, w) > 0 <=> Less(w, v)
<1>1. CASE v = Null /\ w = Null BY <1>1 DEF Compare, Less
<1>2. CASE v = Null /\ w # Null BY <1>2 DEF Compare, Less
<1>3. CASE v # Null /\ w = Null BY <1>3 DEF Compare, Less
<1>4. CASE v # Null /\ w # Null
  <2>1. v \in Int /\ w \in Int BY <1>4, RowsAssumption
  <2>2. Compare(v, w) = IF v < w THEN -1 ELSE IF v > w THEN 1 ELSE 0 BY <1>4 DEF Compare
  <2>3. (Less(v, w) <=> v < w) /\ (Less(w, v) <=> w < v) BY <1>4 DEF Less
  <2> QED BY <2>1, <2>2, <2>3
<1> QED BY <1>1, <1>2, <1>3, <1>4

LEMMA LessIsAnOrder ==
  ASSUME NEW u \in Values \cup {Null}, NEW v \in Values \cup {Null},
         NEW w \in Values \cup {Null}
  PROVE  /\ ~Less(u, u)
         /\ Less(u, v) => ~Less(v, u)
         /\ Less(u, v) /\ Less(v, w) => Less(u, w)
         /\ u = v \/ Less(u, v) \/ Less(v, u)
<1>1. \A x \in Values \cup {Null} : x # Null => x \in Int BY RowsAssumption
<1>2. /\ u # Null => u \in Int
      /\ v # Null => v \in Int
      /\ w # Null => w \in Int
  BY <1>1
<1> QED BY <1>2 DEF Less

(* The filters of the demo pass what those of SQL select. *)
LEMMA PassesAsHolds ==
  ASSUME NEW v \in Values \cup {Null}, NEW f, f.op \in Ops, f.value \in Values
  PROVE  Passes(v, f) <=> Holds(v, f)
<1>1. CASE f.op = "is-null" BY <1>1 DEF Passes, Holds
<1>2. CASE f.op = "not-null" BY <1>2 DEF Passes, Holds
<1>3. CASE f.op = "contains" BY <1>3 DEF Passes, Holds
<1>4. CASE f.op \in {"eq", "ne", "gt", "gte", "lt", "lte"}
  <2> DEFINE cmp == Compare(v, f.value)
  <2>1. CASE v = Null BY <1>4, <2>1 DEF Passes, Holds
  <2>2. CASE v # Null
    <3>1. v \in Int /\ f.value \in Int /\ f.value # Null BY <2>2, RowsAssumption
    <3>2. cmp = IF v < f.value THEN -1 ELSE IF v > f.value THEN 1 ELSE 0
      BY <2>2, <3>1 DEF Compare
    <3> HIDE DEF cmp
    <3>3. CASE f.op = "eq" BY <2>2, <3>1, <3>2, <3>3 DEF Passes, Holds, cmp
    <3>4. CASE f.op = "ne" BY <2>2, <3>1, <3>2, <3>4 DEF Passes, Holds, cmp
    <3>5. CASE f.op = "gt" BY <2>2, <3>1, <3>2, <3>5 DEF Passes, Holds, cmp
    <3>6. CASE f.op = "gte" BY <2>2, <3>1, <3>2, <3>6 DEF Passes, Holds, cmp
    <3>7. CASE f.op = "lt" BY <2>2, <3>1, <3>2, <3>7 DEF Passes, Holds, cmp
    <3>8. CASE f.op = "lte" BY <2>2, <3>1, <3>2, <3>8 DEF Passes, Holds, cmp
    <3> QED BY <1>4, <3>3, <3>4, <3>5, <3>6, <3>7, <3>8
  <2> QED BY <2>1, <2>2
<1> QED BY <1>1, <1>2, <1>3, <1>4 DEF Ops

Asked(t, r) ==
    /\ r.filter # Nothing =>
          r.filter \in Filter /\ r.filter.column \in Known(t) /\ r.filter.op \in Ops
    /\ r.sort \in Known(t) \cup {Nothing} /\ r.desc \in BOOLEAN
    /\ r.limit \in Nat \ {0} /\ r.offset \in Nat

LEMMA SameRows ==
  ASSUME NEW t, Typed(t), NEW r, Asked(t, r)
  PROVE  Filtered(t, r) = Matching(t, r)
<1>1. CASE r.filter = Nothing BY <1>1 DEF Filtered, Matching
<1>2. CASE r.filter # Nothing
  <2>1. r.filter \in Filter /\ r.filter.op \in Ops BY <1>2 DEF Asked
  <2>2. ASSUME NEW v \in Values \cup {Null} PROVE Passes(v, r.filter) <=> Holds(v, r.filter)
    <3>1. r.filter.value \in Values BY <2>1 DEF Filter
    <3> QED BY <2>1, <3>1, PassesAsHolds
  <2>3. ASSUME NEW i \in DOMAIN t.rows PROVE t.rows[i][r.filter.column] \in Values \cup {Null}
    <3>1. t.rows[i] \in Row BY DEF Typed
    <3> QED BY <2>1, <3>1 DEF Filter, Row
  <2> QED BY <1>2, <2>2, <2>3 DEF Filtered, Matching
<1> QED BY <1>1, <1>2

(* The columns that both stores compare by, the sort column first. *)
Precedes(t, r, i, j) ==
    LET a == t.rows[i][SortColumn(t, r)]
        b == t.rows[j][SortColumn(t, r)]
        d == t.rows[i][t.columns[1]]
        e == t.rows[j][t.columns[1]]
    IN  IF r.desc THEN Less(b, a) \/ (a = b /\ Less(e, d))
                  ELSE Less(a, b) \/ (a = b /\ Less(d, e))

LEMMA CellsTyped ==
  ASSUME NEW t, Typed(t), NEW r, Asked(t, r), NEW i \in RowIds
  PROVE  /\ t.columns[1] \in Columns /\ SortColumn(t, r) \in Columns
         /\ t.rows[i][t.columns[1]] \in Values \cup {Null}
         /\ t.rows[i][SortColumn(t, r)] \in Values \cup {Null}
<1>1. Len(t.columns) \in Nat /\ Len(t.columns) # 0
  BY LenProperties, EmptySeq DEF Typed
<1>2. \A k \in 1..Len(t.columns) : t.columns[k] \in Columns BY ElementOfSeq DEF Typed
<1>3. t.columns[1] \in Columns BY <1>1, <1>2
<1>4. Known(t) \subseteq Columns BY <1>2 DEF Known
<1>5. SortColumn(t, r) \in Columns BY <1>3, <1>4 DEF SortColumn, Asked
<1>6. t.rows[i] \in Row BY DEF Typed
<1> QED BY <1>3, <1>5, <1>6 DEF Row

LEMMA AheadIsPrecedes ==
  ASSUME NEW t, Typed(t), NEW r, Asked(t, r), NEW i \in RowIds, NEW j \in RowIds
  PROVE  Ahead(t, r, i, j) <=> Precedes(t, r, i, j)
<1> DEFINE a == t.rows[i][SortColumn(t, r)]
           b == t.rows[j][SortColumn(t, r)]
           d == t.rows[i][t.columns[1]]
           e == t.rows[j][t.columns[1]]
           cmp == Compare(a, b)
           tie == Compare(d, e)
<1>1. /\ cmp \in {-1, 0, 1} /\ cmp = 0 <=> a = b
      /\ cmp < 0 <=> Less(a, b)
      /\ cmp > 0 <=> Less(b, a)
  BY CellsTyped, ComparesAsLess
<1>2. /\ tie \in {-1, 0, 1}
      /\ tie < 0 <=> Less(d, e)
      /\ tie > 0 <=> Less(e, d)
  BY CellsTyped, ComparesAsLess
<1>3. Ahead(t, r, i, j) <=> LET c == IF cmp = 0 THEN tie ELSE cmp
                            IN  IF r.desc THEN c > 0 ELSE c < 0
  BY DEF Ahead
<1>4. Precedes(t, r, i, j) <=> IF r.desc THEN Less(b, a) \/ (a = b /\ Less(e, d))
                                         ELSE Less(a, b) \/ (a = b /\ Less(d, e))
  BY DEF Precedes
<1>5. a = b => ~Less(a, b) /\ ~Less(b, a) BY CellsTyped, LessIsAnOrder
<1> HIDE DEF cmp, tie, a, b, d, e
<1>6. CASE a = b BY <1>1, <1>2, <1>3, <1>4, <1>5, <1>6
<1>7. CASE a # b BY <1>1, <1>2, <1>3, <1>4, <1>7
<1> QED BY <1>6, <1>7

LEMMA BeforeIsPrecedes ==
  ASSUME NEW t, Typed(t), Sound(t), HasDemoKey(t), NEW r, Asked(t, r),
         NEW i \in RowIds, NEW j \in RowIds
  PROVE  Before(t, r, i, j) <=> Precedes(t, r, i, j)
<1> DEFINE c1 == t.columns[1]
           value(n, c) == t.rows[n][c]
           less(c) == IF r.desc THEN Less(value(j, c), value(i, c))
                                ELSE Less(value(i, c), value(j, c))
           by == OrderBy(t, r)
<1>1. Before(t, r, i, j) <=>
         \E k \in 1..Len(by) : /\ less(by[k])
                               /\ \A m \in 1..(k - 1) : value(i, by[m]) = value(j, by[m])
  BY DEF Before
<1>2. Deterministic(t) /\ SortKey(t) = <<c1>> BY DemoKey
<1>3. Precedes(t, r, i, j) <=>
         \/ less(SortColumn(t, r))
         \/ value(i, SortColumn(t, r)) = value(j, SortColumn(t, r)) /\ less(c1)
  BY DEF Precedes
<1>4. CASE r.sort = Nothing
  <2>1. by = <<>> \o <<c1>> BY <1>2, <1>4 DEF OrderBy
  <2>2. by = <<c1>> BY <2>1
  <2>3. Before(t, r, i, j) <=> less(c1)
    <3>1. Len(by) = 1 /\ by[1] = c1 BY <2>2
    <3>2. \A k \in 1..1 : k = 1 /\ 1..(k - 1) = {} OBVIOUS
    <3> HIDE DEF less, by, value
    <3> QED BY <1>1, <3>1, <3>2
  <2>4. SortColumn(t, r) = c1 BY <1>4 DEF SortColumn
  <2> QED BY <1>3, <2>3, <2>4
<1>5. CASE r.sort # Nothing
  <2>1. by = <<r.sort>> \o <<c1>> BY <1>2, <1>5 DEF OrderBy
  <2>2. SortColumn(t, r) = r.sort BY <1>5 DEF SortColumn
  <2>3. <<r.sort>> \in Seq(Columns) /\ <<c1>> \in Seq(Columns)
        /\ Len(<<r.sort>>) = 1 /\ Len(<<c1>>) = 1
    BY <1>5, <2>2, CellsTyped
  <2>4. Len(by) = 2 /\ by[1] = r.sort /\ by[2] = c1
    BY <2>1, <2>3, ConcatProperties
  <2> HIDE DEF less, by, value, c1
  <2>5. Before(t, r, i, j) <=>
           \/ less(by[1])
           \/ less(by[2]) /\ value(i, by[1]) = value(j, by[1])
    <3>1. 1..Len(by) = {1, 2} /\ 1..(1 - 1) = {} /\ 1..(2 - 1) = {1} BY <2>4
    <3> QED BY <1>1, <3>1
  <2> QED BY <1>3, <2>2, <2>4, <2>5
<1> QED BY <1>4, <1>5

(* The sort of the demo tells any two rows apart, by their key. *)
LEMMA PrecedesIsAnOrder ==
  ASSUME NEW t, Typed(t), Sound(t), HasDemoKey(t), NEW r, Asked(t, r),
         NEW i \in RowIds, NEW j \in RowIds, NEW k \in RowIds
  PROVE  /\ ~Precedes(t, r, i, i)
         /\ Precedes(t, r, i, j) => ~Precedes(t, r, j, i)
         /\ Precedes(t, r, i, j) /\ Precedes(t, r, j, k) => Precedes(t, r, i, k)
         /\ i = j \/ Precedes(t, r, i, j) \/ Precedes(t, r, j, i)
<1> DEFINE sc == SortColumn(t, r)
           c1 == t.columns[1]
           V == Values \cup {Null}
<1>1. /\ t.rows[i][sc] \in V /\ t.rows[j][sc] \in V /\ t.rows[k][sc] \in V
      /\ t.rows[i][c1] \in V /\ t.rows[j][c1] \in V /\ t.rows[k][c1] \in V
  BY CellsTyped
<1>2. /\ \A x \in V : ~Less(x, x)
      /\ \A x, y \in V : Less(x, y) => ~Less(y, x)
      /\ \A x, y, z \in V : Less(x, y) /\ Less(y, z) => Less(x, z)
      /\ \A x, y \in V : x = y \/ Less(x, y) \/ Less(y, x)
  BY LessIsAnOrder
<1>3. i # j => t.rows[i][c1] # t.rows[j][c1]
  <2>1. Deterministic(t) /\ SortKey(t) = <<c1>> BY DemoKey
  <2>2. Len(<<c1>>) = 1 /\ \A n \in 1..1 : <<c1>>[n] = c1 OBVIOUS
  <2> QED BY <2>1, <2>2, KeyDistinguishes
<1> HIDE DEF V, sc, c1
<1>4. ~Precedes(t, r, i, i) BY <1>1, <1>2 DEF Precedes, sc, c1
<1>5. Precedes(t, r, i, j) => ~Precedes(t, r, j, i) BY <1>1, <1>2 DEF Precedes, sc, c1
<1>6. Precedes(t, r, i, j) /\ Precedes(t, r, j, k) => Precedes(t, r, i, k)
  BY <1>1, <1>2 DEF Precedes, sc, c1
<1>7. i = j \/ Precedes(t, r, i, j) \/ Precedes(t, r, j, i)
  BY <1>1, <1>2, <1>3 DEF Precedes, sc, c1
<1> QED BY <1>4, <1>5, <1>6, <1>7

LEMMA DemoOrder ==
  ASSUME NEW t, Typed(t), Sound(t), HasDemoKey(t), NEW r, Asked(t, r)
  PROVE  Sorted(t, r) \in Orders(t, r)
<1> DEFINE S == Matching(t, r)
           c == Cardinality(S)
           R == {p \in S \X S : Precedes(t, r, p[1], p[2])}
           Listed(o) == \A m, n \in DOMAIN o : m < n => \/ Ahead(t, r, o[m], o[n])
                                                       \/ /\ ~Ahead(t, r, o[n], o[m])
                                                          /\ o[m] < o[n]
<1>1. S \subseteq RowIds BY DEF Typed, Matching
<1>2. IsFiniteSet(S) BY <1>1, RowsAssumption, FS_Subset
<1>3. /\ \A x \in S : <<x, x>> \notin R
      /\ \A x, y, z \in S : <<x, y>> \in R /\ <<y, z>> \in R => <<x, z>> \in R
      /\ \A x, y \in S : x = y \/ <<x, y>> \in R \/ <<y, x>> \in R
  <2> HIDE DEF S
  <2>1. \A x, y \in S : <<x, y>> \in R <=> Precedes(t, r, x, y) OBVIOUS
  <2> QED BY <1>1, <2>1, PrecedesIsAnOrder
<1>4. PICK u \in [1..c -> S] : \A m, n \in 1..c : m < n => <<u[m], u[n]>> \in R
  <2> HIDE DEF S, R
  <2> QED BY <1>2, <1>3, Listing
<1>5. Listed(u) BY <1>1, <1>4, AheadIsPrecedes
<1>6. Filtered(t, r) = S BY SameRows
<1>7. Sorted(t, r) = CHOOSE o \in [1..c -> S] : Listed(o) BY <1>6 DEF Sorted
<1> DEFINE o == Sorted(t, r)
<1> HIDE DEF Listed, S
<1>8. o \in [1..c -> S] /\ Listed(o) BY <1>4, <1>5, <1>7
<1> HIDE DEF o
<1>9. ASSUME NEW m \in 1..c, NEW n \in 1..c, m < n
      PROVE  o[m] # o[n] /\ ~Before(t, r, o[n], o[m])
  <2>1. o[m] \in RowIds /\ o[n] \in RowIds BY <1>1, <1>8
  <2>2. Ahead(t, r, o[m], o[n]) \/ (~Ahead(t, r, o[n], o[m]) /\ o[m] < o[n])
    BY <1>8, <1>9 DEF Listed
  <2>3. CASE Ahead(t, r, o[m], o[n])
    BY <2>1, <2>3, AheadIsPrecedes, BeforeIsPrecedes, PrecedesIsAnOrder
  <2>4. CASE ~Ahead(t, r, o[n], o[m]) /\ o[m] < o[n]
    <3>1. o[m] # o[n]
      <4>1. \A x, y \in RowIds : x < y => x # y BY RowsAssumption
      <4> QED BY <2>1, <2>4, <4>1
    <3>2. ~Before(t, r, o[n], o[m]) BY <2>1, <2>4, AheadIsPrecedes, BeforeIsPrecedes
    <3> QED BY <3>1, <3>2
  <2> QED BY <2>2, <2>3, <2>4
<1>10. o \in [1..c -> S] /\ \A m, n \in DOMAIN o : m < n => o[m] # o[n] /\ ~Before(t, r, o[n], o[m])
  BY <1>8, <1>9
<1> QED BY <1>10 DEF Orders, o, S

LEMMA DemoAnswers ==
  ASSUME NEW t, Typed(t), Sound(t), HasDemoKey(t), NEW r, Asked(t, r)
  PROVE  DemoBrowse(t, r) \subseteq MySQLBrowse(t, r)
<1> DEFINE o == Sorted(t, r)
           count == Len(o)
           start == Lesser(r.offset, count)
           end == start + Lesser(r.limit, count - start)
           rows == SubSeq(o, start + 1, end)
           p == Collected(Window(o, r), r)
<1>1. o \in Orders(t, r) BY DemoOrder
<1>2. o \in Seq(RowIds) BY <1>1, OrdersTyped
<1> HIDE DEF o
<1>3. count \in Nat /\ r.limit \in Nat \ {0} /\ r.offset \in Nat
  BY <1>2, LenProperties DEF Asked
<1>4. /\ start \in Nat /\ end \in Nat /\ start =< end /\ end =< count
      /\ end - start = PageLength(r, count)
      /\ start # r.offset => end - start = 0
      /\ end < count <=> r.offset + r.limit < count
  BY <1>3 DEF Lesser, PageLength, Fewer
<1>5. /\ p.rows \in Seq(RowIds) /\ Len(p.rows) = PageLength(r, count)
      /\ \A k \in 1..Len(p.rows) : p.rows[k] = o[r.offset + k]
      /\ p.more <=> r.offset + r.limit < count
      /\ p \in [rows : Seq(RowIds), more : BOOLEAN]
  BY <1>2, <1>3, PageIsPartOfOrder
<1>6. DemoBrowse(t, r) = {[rows |-> rows, more |-> end < count]} BY DEF DemoBrowse, o
<1> HIDE DEF start, end, p, count
<1>7. /\ rows \in Seq(RowIds)
      /\ Len(rows) = PageLength(r, count)
      /\ \A k \in 1..(end - start) : rows[k] = o[start + k]
  BY <1>2, <1>4, Stretch DEF count
<1> HIDE DEF rows
<1>8. \A k \in 1..Len(rows) : rows[k] = p.rows[k]
  <2>1. CASE start = r.offset BY <1>4, <1>5, <1>7, <2>1
  <2>2. CASE start # r.offset BY <1>4, <1>7, <2>2
  <2> QED BY <2>1, <2>2
<1>9. rows = p.rows BY <1>5, <1>7, <1>8, SeqEqual
<1>10. p.more = (end < count) BY <1>4, <1>5
<1>11. p = [rows |-> p.rows, more |-> p.more] BY <1>5
<1>12. p \in MySQLBrowse(t, r) BY <1>1 DEF MySQLBrowse, p
<1> QED BY <1>6, <1>9, <1>10, <1>11, <1>12

-----------------------------------------------------------------------------
(* The pages that a reader sees *)

Request == [filter : Filter \cup {Nothing}, sort : Columns \cup {Nothing},
            desc : BOOLEAN, limit : Int, offset : Nat]

TableFits ==
    /\ kind \in {"mysql", "demo"}
    /\ Typed(table) /\ Sound(table)
    /\ kind = "demo" => HasDemoKey(table)

(* The demo too answers what MySQL could. *)
PageFits ==
    page # Nothing =>
        req \in Request /\ Asked(table, req) /\ page \in MySQLBrowse(table, req)

(* The rows at an offset of an order of the rows. *)
PageOf(rows, o, offset, limit) ==
    /\ rows \in Seq(RowIds)
    /\ Len(rows) = IF offset >= Len(o) THEN 0 ELSE Fewer(limit, Len(o) - offset)
    /\ \A k \in 1..Len(rows) : rows[k] = o[offset + k]

(* Pages begin at the first row or where another ends. *)
Joined(offsets, limit) ==
    /\ offsets \subseteq Nat /\ 0 \in offsets
    /\ \A p \in offsets : p # 0 => p >= limit /\ p - limit \in offsets
    /\ \A p, q \in offsets : p < q => p + limit =< q

ReadFits ==
    page # Nothing /\ Deterministic(table) =>
        /\ Joined(DOMAIN read, req.limit) /\ req.offset \in DOMAIN read
        /\ \A o \in Orders(table, req), p \in DOMAIN read : PageOf(read[p], o, p, req.limit)

PagingInv == TableFits /\ PageFits /\ ReadFits

LEMMA AnswersOfStores ==
  ASSUME TableFits, NEW r, Asked(table, r)
  PROVE  Answers(r) \subseteq MySQLBrowse(table, r)
<1>1. CASE kind = "mysql" BY <1>1 DEF Answers
<1>2. CASE kind = "demo"
  <2>1. Answers(r) = DemoBrowse(table, r) BY <1>2 DEF Answers
  <2>2. Typed(table) /\ Sound(table) /\ HasDemoKey(table) BY <1>2 DEF TableFits
  <2> QED BY <2>1, <2>2, DemoAnswers
<1> QED BY <1>1, <1>2 DEF TableFits

(* A request that passes the checks and begins at a row can be answered. *)
LEMMA OpenAsks ==
  ASSUME NEW r \in Requests, ~BadRequest(table, r)
  PROVE  r \in Request /\ Asked(table, r) /\ r.offset = 0
<1>1. r \in [filter : Filter \cup {Nothing}, sort : Columns \cup {Nothing},
              desc : BOOLEAN, limit : Int, offset : {0}]
  BY RequestsAssumption
<1>2. /\ r.limit \in 1..MaxPage
      /\ r.sort \in Known(table) \cup {Nothing}
      /\ r.filter # Nothing => r.filter.column \in Known(table) /\ r.filter.op \in Ops
  BY DEF BadRequest
<1>3. r \in Request /\ r.offset = 0 /\ r.limit \in Nat \ {0} BY <1>1, <1>2 DEF Request
<1>4. r.filter # Nothing => r.filter \in Filter BY <1>1
<1>5. r.desc \in BOOLEAN BY <1>1
<1> QED BY <1>2, <1>3, <1>4, <1>5 DEF Asked

LEMMA TurnedAsks ==
  ASSUME NEW q \in Request, Asked(table, q), NEW n \in Nat,
         NEW r, r = [q EXCEPT !.offset = n]
  PROVE  /\ r \in Request /\ Asked(table, r)
         /\ r.offset = n /\ r.limit = q.limit
         /\ r.filter = q.filter /\ r.sort = q.sort /\ r.desc = q.desc
<1>1. r \in Request BY DEF Request
<1>2. /\ r.offset = n /\ r.limit = q.limit
      /\ r.filter = q.filter /\ r.sort = q.sort /\ r.desc = q.desc
  BY DEF Request
<1> QED BY <1>1, <1>2 DEF Asked

(* The page after one, or before one, joins the pages that were read. *)
LEMMA NextJoins ==
  ASSUME NEW D, NEW limit \in Nat \ {0}, Joined(D, limit), NEW p \in D
  PROVE  Joined(D \cup {p + limit}, limit)
<1> DEFINE q == p + limit
           E == D \cup {q}
<1>1. p \in Nat /\ q \in Nat /\ D \subseteq Nat /\ 0 \in D BY DEF Joined
<1>2. ASSUME NEW x \in E, x # 0 PROVE x >= limit /\ x - limit \in E
  <2>1. CASE x = q BY <1>1, <2>1
  <2>2. CASE x \in D BY <1>2, <2>2 DEF Joined
  <2> QED BY <2>1, <2>2
<1>3. ASSUME NEW x \in D, x < q PROVE x + limit =< q
  <2>1. x \in Nat /\ (x < p => x + limit =< p) /\ (p < x => p + limit =< x)
    BY <1>1 DEF Joined
  <2> QED BY <1>1, <1>3, <2>1
<1>4. ASSUME NEW y \in D, q < y PROVE q + limit =< y
  <2>1. y \in Nat /\ y # 0 BY <1>1, <1>4
  <2>2. y - limit \in D BY <2>1 DEF Joined
  <2>3. p < y - limit => p + limit =< y - limit BY <2>2 DEF Joined
  <2> QED BY <1>1, <1>4, <2>1, <2>3
<1>5. ASSUME NEW x \in E, NEW y \in E, x < y PROVE x + limit =< y
  <2>1. CASE x \in D /\ y \in D BY <1>5, <2>1 DEF Joined
  <2>2. CASE x \in D /\ y = q BY <1>3, <1>5, <2>2
  <2>3. CASE x = q /\ y \in D BY <1>4, <1>5, <2>3
  <2>4. CASE x = q /\ y = q BY <1>1, <1>5, <2>4
  <2> QED BY <2>1, <2>2, <2>3, <2>4
<1> QED BY <1>1, <1>2, <1>5 DEF Joined

LEMMA PreviousJoins ==
  ASSUME NEW D, NEW limit \in Nat \ {0}, Joined(D, limit), NEW p \in D
  PROVE  (IF p < limit THEN 0 ELSE p - limit) \in D
<1>1. p \in Nat BY DEF Joined
<1>2. CASE p = 0 BY <1>2 DEF Joined
<1>3. CASE p # 0 BY <1>1, <1>3 DEF Joined
<1> QED BY <1>2, <1>3

LEMMA FirstJoins ==
  ASSUME NEW limit \in Nat \ {0}
  PROVE  Joined({0}, limit)
BY DEF Joined

LEMMA ShownFits ==
  ASSUME TableFits, NEW r \in Request, Asked(table, r), NEW pages, Show(r, pages),
         Deterministic(table) =>
            /\ Joined(DOMAIN pages \cup {r.offset}, r.limit)
            /\ \A o \in Orders(table, r), p \in DOMAIN pages : PageOf(pages[p], o, p, r.limit)
  PROVE  PagingInv'
<1>1. /\ req' = r /\ page' \in Answers(r) /\ kind' = kind /\ table' = table
      /\ Deterministic(table) =>
            read' = [o \in {r.offset} \cup DOMAIN pages |->
                        IF o = r.offset THEN page'.rows ELSE pages[o]]
  BY DEF Show
<1>2. TableFits' BY <1>1 DEF TableFits
<1>3. page' \in MySQLBrowse(table, r) BY <1>1, AnswersOfStores
<1>4. PageFits' BY <1>1, <1>3 DEF PageFits
<1>5. ASSUME Deterministic(table)
      PROVE  /\ Joined(DOMAIN read', r.limit) /\ r.offset \in DOMAIN read'
             /\ \A o \in Orders(table, r), p \in DOMAIN read' : PageOf(read'[p], o, p, r.limit)
  <2>1. r.limit \in Nat \ {0} /\ r.offset \in Nat /\ r.sort \in Columns \cup {Nothing}
    BY DEF Asked, Request
  <2>2. Typed(table) /\ Sound(table) BY DEF TableFits
  <2>3. PICK u \in Orders(table, r) :
           /\ page'.rows \in Seq(RowIds)
           /\ Len(page'.rows) = PageLength(r, Len(u))
           /\ \A k \in 1..Len(page'.rows) : page'.rows[k] = u[r.offset + k]
    BY <1>3, <2>1, <2>2, AnswerOfMySQL
  <2>4. PageOf(page'.rows, u, r.offset, r.limit) BY <2>3 DEF PageOf, PageLength
  <2>5. \A o \in Orders(table, r) : o = u BY <1>5, <2>1, <2>2, OneOrder
  <2>6. /\ DOMAIN read' = {r.offset} \cup DOMAIN pages
        /\ \A p \in DOMAIN read' :
              read'[p] = IF p = r.offset THEN page'.rows ELSE pages[p]
    BY <1>1, <1>5
  <2>7. ASSUME NEW o \in Orders(table, r), NEW p \in DOMAIN read'
        PROVE  PageOf(read'[p], o, p, r.limit)
    <3>1. CASE p = r.offset BY <2>4, <2>5, <2>6, <3>1
    <3>2. CASE p # r.offset
      <4>1. p \in DOMAIN pages /\ read'[p] = pages[p] BY <2>6, <3>2
      <4> QED BY <1>5, <4>1
    <3> QED BY <3>1, <3>2
  <2>8. {r.offset} \cup DOMAIN pages = DOMAIN pages \cup {r.offset} OBVIOUS
  <2> QED BY <1>5, <2>6, <2>7, <2>8
<1>6. ReadFits' BY <1>1, <1>5 DEF ReadFits
<1> QED BY <1>2, <1>4, <1>6 DEF PagingInv

LEMMA PagingInitFits == Init => PagingInv
<1> SUFFICES ASSUME Init PROVE PagingInv OBVIOUS
<1>1. Typed(table) BY TablesAssumption DEF Init, Typed
<1>2. TableFits BY <1>1 DEF Init, TableFits
<1> QED BY <1>2 DEF Init, PagingInv, PageFits, ReadFits

LEMMA OpenFits ==
  ASSUME PagingInv, Open
  PROVE  PagingInv'
<1>1. PICK r \in Requests : ~BadRequest(table, r) /\ Show(r, <<>>) BY DEF Open
<1>2. r \in Request /\ Asked(table, r) /\ r.offset = 0 BY <1>1, OpenAsks
<1>3. DOMAIN <<>> = {} OBVIOUS
<1>4. Joined({0}, r.limit) BY <1>2, FirstJoins DEF Asked
<1>5. DOMAIN <<>> \cup {r.offset} = {0} BY <1>2, <1>3
<1>6. TableFits BY DEF PagingInv
<1> QED BY <1>1, <1>2, <1>3, <1>4, <1>5, <1>6, ShownFits

LEMMA TurnFits ==
  ASSUME PagingInv, page # Nothing, NEW n \in Nat,
         Show([req EXCEPT !.offset = n], read),
         Deterministic(table) => Joined(DOMAIN read \cup {n}, req.limit)
  PROVE  PagingInv'
<1> DEFINE r == [req EXCEPT !.offset = n]
<1>1. req \in Request /\ Asked(table, req) /\ TableFits BY DEF PagingInv, PageFits
<1> HIDE DEF r
<1>2. /\ r \in Request /\ Asked(table, r)
      /\ r.offset = n /\ r.limit = req.limit
      /\ r.filter = req.filter /\ r.sort = req.sort /\ r.desc = req.desc
  BY <1>1, TurnedAsks DEF r
<1>3. Orders(table, r) = Orders(table, req) BY <1>2, OrderOfAnyPage
<1>4. Deterministic(table) =>
         /\ Joined(DOMAIN read \cup {r.offset}, r.limit)
         /\ \A o \in Orders(table, r), p \in DOMAIN read : PageOf(read[p], o, p, r.limit)
  BY <1>2, <1>3 DEF PagingInv, ReadFits
<1>5. Show(r, read) BY DEF r
<1> QED BY <1>1, <1>2, <1>4, <1>5, ShownFits

LEMMA NextPageFits ==
  ASSUME PagingInv, NextPage
  PROVE  PagingInv'
<1>1. page # Nothing BY DEF NextPage
<1>2. req \in Request /\ Asked(table, req) BY <1>1 DEF PagingInv, PageFits
<1>3. req.offset \in Nat /\ req.limit \in Nat \ {0} BY <1>2 DEF Asked
<1>4. req.offset + req.limit \in Nat BY <1>3
<1>5. Show([req EXCEPT !.offset = req.offset + req.limit], read)
  <2>1. [req EXCEPT !.offset = @ + req.limit] = [req EXCEPT !.offset = req.offset + req.limit]
    BY <1>2 DEF Request
  <2> QED BY <2>1 DEF NextPage
<1>6. Deterministic(table) => Joined(DOMAIN read \cup {req.offset + req.limit}, req.limit)
  BY <1>1, <1>3, NextJoins DEF PagingInv, ReadFits
<1> QED BY <1>1, <1>4, <1>5, <1>6, TurnFits

LEMMA PrevPageFits ==
  ASSUME PagingInv, PrevPage
  PROVE  PagingInv'
<1> DEFINE n == IF req.offset < req.limit THEN 0 ELSE req.offset - req.limit
<1>1. page # Nothing BY DEF PrevPage
<1>2. req \in Request /\ Asked(table, req) BY <1>1 DEF PagingInv, PageFits
<1>3. req.offset \in Nat /\ req.limit \in Nat \ {0} BY <1>2 DEF Asked
<1>4. n \in Nat BY <1>3
<1>5. Show([req EXCEPT !.offset = n], read)
  <2>1. [req EXCEPT !.offset = IF @ < req.limit THEN 0 ELSE @ - req.limit]
           = [req EXCEPT !.offset = n]
    BY <1>2 DEF Request
  <2> QED BY <2>1 DEF PrevPage
<1>6. ASSUME Deterministic(table) PROVE Joined(DOMAIN read \cup {n}, req.limit)
  <2>1. Joined(DOMAIN read, req.limit) /\ req.offset \in DOMAIN read
    BY <1>1, <1>6 DEF PagingInv, ReadFits
  <2>2. n \in DOMAIN read BY <1>3, <2>1, PreviousJoins
  <2>3. DOMAIN read \cup {n} = DOMAIN read BY <2>2
  <2> QED BY <2>1, <2>3
<1> HIDE DEF n
<1> QED BY <1>1, <1>4, <1>5, <1>6, TurnFits

LEMMA PagingStepFits ==
  ASSUME PagingInv, [Next]_vars
  PROVE  PagingInv'
<1>1. CASE Open BY <1>1, OpenFits
<1>2. CASE NextPage BY <1>2, NextPageFits
<1>3. CASE PrevPage BY <1>3, PrevPageFits
<1>4. CASE UNCHANGED vars
  BY <1>4 DEF vars, PagingInv, TableFits, PageFits, ReadFits
<1> QED BY <1>1, <1>2, <1>3, <1>4 DEF Next

(***************************************************************************)
(* Every page shown is one that MySQL could answer, and where ties have an *)
(* order the pages read are consecutive stretches of one order of the      *)
(* rows.                                                                   *)
(***************************************************************************)
THEOREM PagesOfOneOrder == Spec => []PagingInv
<1>1. Init => PagingInv BY PagingInitFits
<1>2. PagingInv /\ [Next]_vars => PagingInv' BY PagingStepFits
<1> QED BY <1>1, <1>2, PTL DEF Spec

LEMMA MoreFollows ==
  ASSUME PagingInv
  PROVE  MoreIsExact
<1> SUFFICES ASSUME page # Nothing
             PROVE  LET seen == req.offset + Len(page.rows)
                    IN  /\ page.more <=> seen < Cardinality(Matching(table, req))
                        /\ page.more => Len(page.rows) = req.limit
  BY DEF MoreIsExact
<1>1. Asked(table, req) /\ page \in MySQLBrowse(table, req) /\ Typed(table)
  BY DEF PagingInv, PageFits, TableFits
<1>2. req.offset \in Nat /\ req.limit \in Nat \ {0} BY <1>1 DEF Asked
<1>3. PICK o \in Orders(table, req) :
         /\ Len(page.rows) = PageLength(req, Len(o))
         /\ page.more <=> req.offset + req.limit < Len(o)
  BY <1>1, <1>2, AnswerOfMySQL
<1>4. Len(o) = Cardinality(Matching(table, req)) /\ Len(o) \in Nat BY <1>1, OrdersTyped
<1> QED BY <1>2, <1>3, <1>4 DEF PageLength, Fewer

(***************************************************************************)
(* HasMore is exact for every table, request and page size, at either      *)
(* store (collect, demo Browse).                                           *)
(***************************************************************************)
THEOREM MoreExact == Spec => []MoreIsExact
<1>1. PagingInv => MoreIsExact BY MoreFollows
<1> QED BY <1>1, PagesOfOneOrder, PTL

(***************************************************************************)
(* The demo answers every request as MySQL could (Browse of both stores).  *)
(***************************************************************************)
THEOREM DemoIsMySQL == Spec => []DemoLikeMySQL
<1>1. PagingInv => DemoLikeMySQL BY DEF PagingInv, PageFits, DemoLikeMySQL
<1> QED BY <1>1, PagesOfOneOrder, PTL

LEMMA OnceFollows ==
  ASSUME PagingInv
  PROVE  EachRowOnce
<1> SUFFICES ASSUME page # Nothing, Deterministic(table)
             PROVE  /\ \A p, q \in DOMAIN read :
                          p # q => Elements(read[p]) \cap Elements(read[q]) = {}
                    /\ ~page.more => UNION {Elements(read[p]) : p \in DOMAIN read}
                                        = Matching(table, req)
  BY DEF EachRowOnce
<1> DEFINE S == Matching(table, req)
           c == Cardinality(S)
           D == DOMAIN read
           limit == req.limit
<1>1. /\ Asked(table, req) /\ page \in MySQLBrowse(table, req) /\ Typed(table)
      /\ Joined(D, limit) /\ req.offset \in D
      /\ \A o \in Orders(table, req), p \in D : PageOf(read[p], o, p, limit)
  BY DEF PagingInv, PageFits, TableFits, ReadFits
<1>2. req.offset \in Nat /\ limit \in Nat \ {0} BY <1>1 DEF Asked
<1>3. PICK o \in Orders(table, req) : page.more <=> req.offset + limit < Len(o)
  BY <1>1, <1>2, AnswerOfMySQL
<1>4. /\ c \in Nat /\ Len(o) = c
      /\ o \in Bijection(1..c, S)
  BY <1>1, OrdersTyped
<1> HIDE DEF S, c, D, limit
<1>5. /\ o \in [1..c -> S] /\ \A m, n \in 1..c : o[m] = o[n] => m = n
      /\ \A x \in S : \E n \in 1..c : o[n] = x
  BY <1>4, OneToOne
<1>6. ASSUME NEW p \in D
      PROVE  /\ p \in Nat /\ Len(read[p]) \in Nat /\ Len(read[p]) =< limit
             /\ Len(read[p]) = IF p >= c THEN 0 ELSE Fewer(limit, c - p)
             /\ \A k \in 1..Len(read[p]) :
                   p + k \in 1..c /\ read[p][k] = o[p + k]
  <2>1. PageOf(read[p], o, p, limit) BY <1>1
  <2>2. p \in Nat BY <1>1 DEF Joined
  <2>3. Len(read[p]) = IF p >= c THEN 0 ELSE Fewer(limit, c - p) BY <1>4, <2>1 DEF PageOf
  <2>4. Len(read[p]) \in Nat /\ Len(read[p]) =< limit BY <1>2, <1>4, <2>2, <2>3 DEF Fewer
  <2>5. \A k \in 1..Len(read[p]) : p + k \in 1..c
    BY <1>2, <1>4, <2>2, <2>3 DEF Fewer
  <2> QED BY <2>1, <2>2, <2>3, <2>4, <2>5 DEF PageOf
<1>7. ASSUME NEW p \in D, NEW q \in D, p < q
      PROVE  Elements(read[p]) \cap Elements(read[q]) = {}
  <2>1. SUFFICES ASSUME NEW k \in 1..Len(read[p]), NEW l \in 1..Len(read[q]),
                        read[p][k] = read[q][l]
                 PROVE  FALSE
    BY DEF Elements
  <2>2. p + limit =< q BY <1>1, <1>7 DEF Joined
  <2>3. o[p + k] = o[q + l] /\ p + k \in 1..c /\ q + l \in 1..c BY <1>6, <2>1
  <2>4. p + k = q + l BY <1>5, <2>3
  <2> QED BY <1>2, <1>6, <2>2, <2>4
<1>8. ASSUME NEW p \in D, NEW q \in D, p # q
      PROVE  Elements(read[p]) \cap Elements(read[q]) = {}
  <2>1. p < q \/ q < p BY <1>6, <1>8
  <2> QED BY <1>7, <2>1
<1>9. ASSUME ~page.more PROVE UNION {Elements(read[p]) : p \in D} = S
  <2>1. ASSUME NEW p \in D, NEW k \in 1..Len(read[p]) PROVE read[p][k] \in S
    BY <1>5, <1>6
  <2>2. ASSUME NEW x \in S PROVE \E p \in D : x \in Elements(read[p])
    <3>1. PICK n \in 1..c : o[n] = x BY <1>5
    <3>2. SUFFICES ASSUME NEW p \in D, p < n, n =< p + limit
                   PROVE  x \in Elements(read[p])
      <4> DEFINE after == {q \in D : q >= n}
      <4>1. SUFFICES \E p \in D : p < n /\ n =< p + limit BY <3>2
      <4>2. CASE after = {}
        <5>1. req.offset < n BY <1>1, <1>2, <1>4, <4>2
        <5>2. c =< req.offset + limit BY <1>2, <1>3, <1>4, <1>9
        <5>3. n =< req.offset + limit BY <1>2, <1>4, <5>2
        <5> QED BY <1>1, <5>1, <5>3
      <4>3. CASE after # {}
        <5>1. after \in SUBSET Nat BY <1>6
        <5>2. PICK q \in after : \A y \in after : q =< y BY <4>3, <5>1, LeastNumber
        <5>3. q \in D /\ q \in Nat /\ q # 0 /\ q >= n BY <1>4, <1>6
        <5>4. q >= limit /\ q - limit \in D BY <1>1, <5>3 DEF Joined
        <5>5. q - limit < n
          <6>1. q - limit \notin after BY <1>2, <5>2, <5>3
          <6> QED BY <1>2, <1>4, <5>3, <5>4, <6>1
        <5> QED BY <1>2, <5>3, <5>4, <5>5
      <4> QED BY <4>2, <4>3
    <3>3. n - p \in 1..Len(read[p]) BY <1>2, <1>4, <1>6, <3>2 DEF Fewer
    <3>4. read[p][n - p] = x
      <4>1. p + (n - p) = n BY <1>4, <1>6
      <4> QED BY <1>6, <3>1, <3>3, <4>1
    <3> QED BY <3>3, <3>4 DEF Elements
  <2> QED BY <2>1, <2>2 DEF Elements
<1> QED BY <1>8, <1>9 DEF S, D

(***************************************************************************)
(* Paging through any table shows every row once, unless the store warned  *)
(* that ties have no order (browseSQL, collect, demo Browse).              *)
(***************************************************************************)
THEOREM RowsOnce == Spec => []EachRowOnce
<1>1. PagingInv => EachRowOnce BY OnceFollows
<1> QED BY <1>1, PagesOfOneOrder, PTL
=============================================================================
