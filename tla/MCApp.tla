------------------------------- MODULE MCApp -------------------------------
(* Small instances of App: the calls each run allows. *)
EXTENDS AppInv

CONSTANTS n1, n2  \* the two profile names, in command line order

A(type) == [type |-> type, name |-> Nothing, table |-> Nothing, filters |-> Nothing,
            order |-> Nothing, size |-> 0, sql |-> Nothing, id |-> Nothing]

OnProfile(types, names) == {[A(type) EXCEPT !.name = n] : type \in types, n \in names}
OnWrite(types) == {[A(type) EXCEPT !.id = i] : type \in types, i \in WriteIds}
Plain(types) == {A(type) : type \in types}

(* Writes against everything that may drop, replace or consume them. *)
WriteRequests ==
    {[A("write") EXCEPT !.sql = s] : s \in SQLs}
        \cup OnWrite({"approve", "reject"}) \cup OnProfile({"connect"}, Names)

(* Every way to page through a table, with and without errors. *)
PagingRequests ==
    OnProfile({"connect"}, Names)
        \cup {[A("open-table") EXCEPT !.table = x, !.filters = y] :
                 x \in Tables, y \in Filters \cup {Nothing}}
        \cup {[A("filter") EXCEPT !.filters = y] : y \in Filters}
        \cup {[A("sort") EXCEPT !.order = y] : y \in Orders}
        \cup {[A("page-size") EXCEPT !.size = n] : n \in 0..(MaxPage + 1)}
        \cup {[A("query") EXCEPT !.sql = s] : s \in SQLs}
        \cup Plain({"clear-filters", "next", "prev", "refresh"})

(* What is on screen over connects, raw queries, writes and their reloads. *)
ScreenRequests ==
    OnProfile({"connect"}, Names) \cup OnWrite({"approve"})
        \cup {[A(type) EXCEPT !.sql = s] : type \in {"query", "write"}, s \in SQLs}
        \cup {[A("open-table") EXCEPT !.table = x] : x \in Tables}
        \cup Plain({"next", "refresh"})

(* Everything that waits or leaves a pool behind, a connection made three ways. *)
LiveRequests ==
    OnProfile({"add", "setup", "setup-test", "connect", "test"}, Names)
        \cup Plain({"refresh", "close"})
        \cup OnWrite({"approve"}) \cup {[A("write") EXCEPT !.sql = s] : s \in SQLs}

TwoSeeds == <<n1, n2>>
OneSeed == <<n1>>
NoSeeds == <<>>

FullSymmetry == Permutations(Callers) \cup Permutations(Handles)
                    \cup Permutations(WriteIds)
=============================================================================
