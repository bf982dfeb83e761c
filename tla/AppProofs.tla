------------------------------ MODULE AppProofs ------------------------------
(***************************************************************************)
(* Proofs about App, for every set of callers, profiles, tables, requests  *)
(* and writes, and every page size.  AppInvariant is shown inductive, one  *)
(* lemma per action, and then that App implements WriteApproval.           *)
(***************************************************************************)
EXTENDS AppInv, TLAPS

-----------------------------------------------------------------------------
(* Snapshots and browse requests stay well formed *)

LEMMA CallTyped ==
  ASSUME AppInvariant, NEW c \in Callers, pc[c] \in Holding
  PROVE  /\ req[c] \in RequestType
         /\ pc[c] \in Running => work[c] \in SnapshotType
BY RequestAssumption DEF AppInvariant, CallsOK, CallOK, Holding, Running

LEMMA WithBusy ==
  ASSUME NEW s \in SnapshotType, NEW b \in BOOLEAN
  PROVE  LET n == [s EXCEPT !.busy = b]
         IN  n \in SnapshotType /\ n.busy = b /\ n.pending = s.pending
             /\ n.connection = s.connection
BY DEF SnapshotType

LEMMA WithPending ==
  ASSUME NEW s \in SnapshotType, NEW p \in WriteType \cup {Nothing}
  PROVE  LET n == [s EXCEPT !.pending = p]
         IN  n \in SnapshotType /\ n.busy = s.busy /\ n.pending = p
             /\ n.connection = s.connection /\ n.browse = s.browse
BY DEF SnapshotType

LEMMA WithConnection ==
  ASSUME NEW s \in SnapshotType, NEW x \in Names
  PROVE  LET n == [s EXCEPT !.connections = Append(@, x)]
         IN  n \in SnapshotType /\ n.busy = s.busy /\ n.pending = s.pending
             /\ n.connection = s.connection /\ n.browse = s.browse
<1>1. Append(s.connections, x) \in Seq(Names) BY DEF SnapshotType
<1> QED BY <1>1 DEF SnapshotType

LEMMA WithBrowse ==
  ASSUME NEW s \in SnapshotType, NEW b \in BrowseType
  PROVE  LET n == [s EXCEPT !.browse = b]
         IN  n \in SnapshotType /\ n.pending = s.pending
             /\ n.connection = s.connection /\ n.browse = b
BY DEF SnapshotType

LEMMA RequestedTyped ==
  ASSUME NEW s \in SnapshotType, NEW r \in RequestType, r.type \in BrowseActions,
         ~AtLastPage(s, r), ~Refusable(s, r)
  PROVE  Requested(s, r) \in BrowseType /\ Requested(s, r).table # Nothing
<1>1. s.browse \in BrowseType /\ s.tables \subseteq Tables BY DEF SnapshotType
<1>t. \A b \in BrowseType : FromTop(b) \in BrowseType
  BY PageAssumption DEF FromTop, BrowseType
<1>2. Requested(s, r) \in BrowseType
  <2>1. CASE r.type = "open-table"
    BY <1>1, <2>1, PageAssumption
       DEF Requested, FirstPage, BrowseType, RequestType, Refusable
  <2>2. CASE r.type = "filter"
    <3>1. [s.browse EXCEPT !.filters = r.filters] \in BrowseType
      BY <1>1 DEF BrowseType, RequestType
    <3> QED BY <2>2, <3>1, <1>t DEF Requested
  <2>3. CASE r.type = "clear-filters"
    <3>1. [s.browse EXCEPT !.filters = Nothing] \in BrowseType BY <1>1 DEF BrowseType
    <3> QED BY <2>3, <3>1, <1>t DEF Requested
  <2>4. CASE r.type = "sort"
    <3>1. [s.browse EXCEPT !.order = r.order] \in BrowseType
      BY <1>1 DEF BrowseType, RequestType
    <3> QED BY <2>4, <3>1, <1>t DEF Requested
  <2>5. CASE r.type = "page-size"
    <3>1. [s.browse EXCEPT !.limit = r.size] \in BrowseType
      BY <1>1, <2>5 DEF BrowseType, Refusable, BadSize
    <3> QED BY <2>5, <3>1, <1>t DEF Requested
  <2>6. CASE r.type = "next"
    BY <1>1, <2>6, PageAssumption
       DEF Requested, BrowseType, Refusable, AtLastPage, PagingActions, BrowseActions
  <2>7. CASE r.type = "prev"
    BY <1>1, <2>7, PageAssumption DEF Requested, BrowseType
  <2> QED BY <2>1, <2>2, <2>3, <2>4, <2>5, <2>6, <2>7 DEF BrowseActions
<1>3. Requested(s, r).table # Nothing BY DEF Refusable
<1> QED BY <1>2, <1>3

(***************************************************************************)
(* A step of a running operation that touches only its own working copy,   *)
(* and for Setup the list of profiles.                                     *)
(***************************************************************************)
Moves(c, s, p, b) ==
    /\ pc[c] \in Running \ {"connect-tables", "execute"}
    /\ p \in Running \ {"connect-tables", "execute"}
    /\ s \in SnapshotType /\ b \in BOOLEAN
    /\ pc' = [pc EXCEPT ![c] = p]
    /\ work' = [work EXCEPT ![c] = s]
    /\ failed' = [failed EXCEPT ![c] = b]
    /\ profiles' \in Seq(Names)
    /\ UNCHANGED <<op, cancel, closed, store, opened, views, state, events, req, done,
                   draft, writeVars>>
    /\ b => p = "finish"
    /\ p = "open" => Connecting(req[c]) /\ req[c].name # Nothing
    /\ p \in StorePoints => store # Nothing /\ ~Connecting(req[c])
    /\ p = "load" => s.browse.table # Nothing
    /\ p = "query" => req[c].sql # Nothing
    /\ p = "approve" => /\ s.pending # Nothing /\ s.pending.id = req[c].id
                        /\ s.pending.connection = s.connection
    /\ s.connection = work[c].connection
    /\ s.pending # Nothing => s.pending = work[c].pending
    /\ Switched(c) => p = "finish" /\ ~b

LEMMA Move ==
  ASSUME AppInvariant, NEW c \in Callers, NEW s, NEW p, NEW b, Moves(c, s, p, b)
  PROVE  AppInvariant'
<1> USE DEF AppInvariant, Moves, writeVars
<1>1. TypeOK' BY DEF TypeOK, Points
<1>2. OneOperation' BY DEF TypeOK, OneOperation, Holding
<1>3. CallsOK'
  <2> SUFFICES ASSUME NEW d \in Callers PROVE CallOK(d)' BY DEF CallsOK
  <2>0. CallOK(c) /\ CallOK(d) BY DEF CallsOK
  <2>1. CASE d # c
    BY <2>0, <2>1 DEF TypeOK, CallOK, Holding, Running, StorePoints, Connecting, Testing
  <2>2. CASE d = c
    BY <2>0, <2>2
       DEF TypeOK, CallOK, Holding, Running, StorePoints, Connecting, Testing, SnapshotType
  <2> QED BY <2>1, <2>2
<1>4. PoolsOK' BY DEF TypeOK, PoolsOK
<1>5. ConnectionOK' BY DEF TypeOK, ConnectionOK, Agrees, Switched, Running
<1>6. WritesOK' BY DEF TypeOK, WritesOK, Open, InFlight, WritesAsApproved, CallsOK, CallOK
<1> QED BY <1>1, <1>2, <1>3, <1>4, <1>5, <1>6

-----------------------------------------------------------------------------
(* The three ways such a step ends: an error, a result, a call of the store. *)

Rest == <<op, cancel, closed, store, opened, views, state, events, req, done, draft,
          writeVars>>

LEMMA FailMoves ==
  ASSUME AppInvariant, NEW c \in Callers, pc[c] \in Running \ {"connect-tables", "execute"},
         ~Switched(c), Fail(c), UNCHANGED <<profiles, Rest>>
  PROVE  AppInvariant'
<1>1. Moves(c, work[c], "finish", TRUE)
  BY CallTyped DEF Moves, Fail, Rest, AppInvariant, TypeOK, Running, Holding, StorePoints
<1> QED BY <1>1, Move

LEMMA ReturnMoves ==
  ASSUME AppInvariant, NEW c \in Callers, pc[c] \in Running \ {"connect-tables", "execute"},
         NEW s \in SnapshotType, s.connection = work[c].connection,
         s.pending = work[c].pending, Return(c, s), profiles' \in Seq(Names),
         UNCHANGED Rest
  PROVE  AppInvariant'
<1>1. Moves(c, s, "finish", FALSE)
  BY DEF Moves, Return, Rest, Running, StorePoints
<1> QED BY <1>1, Move

LEMMA GotoMoves ==
  ASSUME AppInvariant, NEW c \in Callers,
         pc[c] \in Running \ {"connect-tables", "execute", "finish"}, ~Switched(c),
         NEW s \in SnapshotType, s.connection = work[c].connection,
         s.pending = work[c].pending,
         NEW p \in StorePoints \ {"execute"}, Goto(c, p, s), store # Nothing,
         ~Connecting(req[c]), p = "load" => s.browse.table # Nothing,
         p = "query" => req[c].sql # Nothing,
         p = "approve" => /\ s.pending # Nothing /\ s.pending.id = req[c].id
                          /\ s.pending.connection = s.connection,
         UNCHANGED <<profiles, Rest>>
  PROVE  AppInvariant'
<1>1. ~failed[c] BY DEF AppInvariant, CallsOK, CallOK
<1>2. Moves(c, s, p, FALSE)
  BY <1>1 DEF Moves, Goto, Rest, Running, StorePoints, AppInvariant, TypeOK
<1> QED BY <1>2, Move

-----------------------------------------------------------------------------
(* perform and Setup *)

LEMMA RefuseStep ==
  ASSUME AppInvariant, NEW c \in Callers, Refuse(c) PROVE AppInvariant'
BY FailMoves DEF Refuse, Rest, coreVars, Switched, Running

LEMMA BrowseActionStep ==
  ASSUME AppInvariant, NEW c \in Callers, BrowseAction(c) PROVE AppInvariant'
<1> DEFINE r == req[c]
           w == work[c]
<1>1. w \in SnapshotType /\ r \in RequestType /\ profiles \in Seq(Names)
  BY CallTyped DEF BrowseAction, Accepted, Running, Holding, AppInvariant, TypeOK
<1>2. pc[c] = "perform" /\ UNCHANGED <<profiles, Rest>>
  BY DEF BrowseAction, Accepted, Rest, coreVars
<1>3. CASE AtLastPage(w, r)
  <2>1. Return(c, w) BY <1>3 DEF BrowseAction
  <2> QED BY <1>1, <1>2, <2>1, ReturnMoves DEF Running
<1>4. CASE ~AtLastPage(w, r)
  <2> DEFINE b == Requested(w, r)
             s == [w EXCEPT !.browse = b]
  <2>1. b \in BrowseType /\ b.table # Nothing
    BY <1>1, <1>4, RequestedTyped DEF BrowseAction, Accepted
  <2>2. /\ s \in SnapshotType /\ s.pending = w.pending /\ s.connection = w.connection
        /\ s.browse = b
    BY <1>1, <2>1, WithBrowse
  <2>3. ~Connecting(r) /\ store # Nothing /\ Goto(c, "load", s)
    BY <1>4 DEF BrowseAction, Accepted, Refusable, Connecting, BrowseActions
  <2> HIDE DEF s, b
  <2> QED BY <1>2, <2>1, <2>2, <2>3, GotoMoves DEF Running, StorePoints, Switched
<1> QED BY <1>3, <1>4

LEMMA StartConnectStep ==
  ASSUME AppInvariant, NEW c \in Callers, StartConnect(c) PROVE AppInvariant'
<1>1. Moves(c, work[c], "open", FALSE)
  <2>1. work[c] \in SnapshotType BY CallTyped DEF StartConnect, Accepted, Running, Holding
  <2>2. req[c].name # Nothing /\ Connecting(req[c])
    <3>1. profiles \in Seq(Names) BY DEF AppInvariant, TypeOK
    <3>2. req[c].name \in InRange(profiles)
      BY DEF StartConnect, Accepted, Refusable
    <3> QED BY <3>1, <3>2, NullAssumption DEF InRange, StartConnect, Connecting
  <2>3. ~failed[c]
    BY DEF AppInvariant, CallsOK, CallOK, StartConnect, Accepted, Running
  <2> QED BY <2>1, <2>2, <2>3
          DEF Moves, StartConnect, Accepted, Goto, Running, StorePoints, Switched,
              AppInvariant, TypeOK, coreVars
<1> QED BY <1>1, Move

LEMMA StartRefreshStep ==
  ASSUME AppInvariant, NEW c \in Callers, StartRefresh(c) PROVE AppInvariant'
<1>1. work[c] \in SnapshotType BY CallTyped DEF StartRefresh, Accepted, Running, Holding
<1> QED BY <1>1, GotoMoves
        DEF StartRefresh, Accepted, Refusable, Connecting, Running, StorePoints, Switched, Rest, coreVars

LEMMA StartQueryStep ==
  ASSUME AppInvariant, NEW c \in Callers, StartQuery(c) PROVE AppInvariant'
<1>1. work[c] \in SnapshotType BY CallTyped DEF StartQuery, Accepted, Running, Holding
<1> QED BY <1>1, GotoMoves
        DEF StartQuery, Accepted, Refusable, Connecting, Running, StorePoints, Switched, Rest, coreVars

LEMMA SetupCheckStep ==
  ASSUME AppInvariant, NEW c \in Callers, SetupCheck(c) PROVE AppInvariant'
<1>1. CASE ~Connectable(req[c].name)
  BY <1>1, FailMoves DEF SetupCheck, Rest, coreVars, Switched, Running
<1>2. CASE Connectable(req[c].name)
  <2>1. work[c] \in SnapshotType BY CallTyped DEF SetupCheck, Running, Holding
  <2>2. ~failed[c] BY DEF AppInvariant, CallsOK, CallOK, SetupCheck, Running
  <2>3. Moves(c, work[c], "open", FALSE)
    BY <1>2, <2>1, <2>2
       DEF Moves, SetupCheck, Connectable, Connecting, Goto, Running, StorePoints,
           Switched, AppInvariant, TypeOK, coreVars
  <2> QED BY <2>3, Move
<1> QED BY <1>1, <1>2

(* The store an operation works with is open for the connection it shows. *)
LEMMA StoreOpen ==
  ASSUME AppInvariant, NEW c \in Callers, pc[c] \in Running, store # Nothing
  PROVE  /\ ~closed /\ opened[store] \in Names
         /\ work[c].connection = opened[store]
BY DEF AppInvariant, TypeOK, PoolsOK, ConnectionOK, Agrees

LEMMA StageWriteStep ==
  ASSUME AppInvariant, NEW c \in Callers, StageWrite(c) PROVE AppInvariant'
<1>1. /\ pc[c] = "perform" /\ req[c].type = "write" /\ store # Nothing
      /\ req[c].sql # Nothing
      /\ work[c] \in SnapshotType /\ req[c] \in RequestType
  BY CallTyped DEF StageWrite, Accepted, Refusable, Running, Holding
<1>2. PICK i \in WriteIds :
        LET p == [id |-> i, connection |-> work[c].connection, sql |-> req[c].sql]
        IN /\ staged[i] = Nothing
           /\ staged' = [staged EXCEPT ![i] = p]
           /\ Return(c, [work[c] EXCEPT !.pending = p])
  BY DEF StageWrite
<1> DEFINE p == [id |-> i, connection |-> work[c].connection, sql |-> req[c].sql]
           s == [work[c] EXCEPT !.pending = p]
<1>3. p \in WriteType /\ p.id = i
  BY <1>1, StoreOpen DEF WriteType, RequestType, Running
<1>4. s \in SnapshotType /\ s.connection = work[c].connection /\ s.pending = p
  BY <1>1, <1>3, WithPending
<1>5. /\ staged[i] = Nothing /\ staged' = [staged EXCEPT ![i] = p]
      /\ pc' = [pc EXCEPT ![c] = "finish"] /\ work' = [work EXCEPT ![c] = s]
      /\ failed' = [failed EXCEPT ![c] = FALSE]
      /\ UNCHANGED <<op, cancel, closed, store, opened, profiles, views, state, events,
                     req, done, draft, grant, lapsed, rejected, executed, applied>>
  BY <1>2 DEF StageWrite, Return, coreVars
<1>6. /\ \A q \in WriteType : staged[q.id] = q => q.id # i
      /\ executed[i] = <<>> /\ i \notin rejected
  BY <1>3, <1>5, NullAssumption DEF AppInvariant, WritesOK, WriteType
<1> HIDE DEF s, p
<1> USE DEF AppInvariant
<1>7. TypeOK' BY <1>3, <1>4, <1>5 DEF TypeOK, Points, Running
<1>8. OneOperation' BY <1>1, <1>5 DEF TypeOK, OneOperation, Holding, Running
<1>9. CallsOK'
  BY <1>1, <1>4, <1>5
     DEF TypeOK, CallsOK, CallOK, Holding, Running, StorePoints, Connecting
<1>10. PoolsOK' BY <1>1, <1>5 DEF TypeOK, PoolsOK, Running
<1>11. ConnectionOK' BY <1>1, <1>4, <1>5 DEF TypeOK, ConnectionOK, Agrees, Switched, Running
<1>12. WritesOK'
  <2>1. \A q \in WriteType : Open(q) => Open(q)' BY <1>5, <1>6 DEF Open, TypeOK
  <2>2. \A d \in Callers : grant[d] # Nothing => grant[d] \in WriteType /\ InFlight(d)
    BY DEF TypeOK, WritesOK
  <2>3. \A d \in Callers : grant[d] # Nothing => grant[d].id # i
    BY <1>6, <2>2 DEF InFlight
  <2>4. \A q \in WriteType : q = staged'[i] => Open(q)'
    BY <1>3, <1>5, <1>6, <2>3 DEF Open, TypeOK
  <2>5. (state.pending # Nothing => Open(state.pending))'
    BY <1>5, <2>1 DEF WritesOK, TypeOK, SnapshotType
  <2>6. (\A d \in Callers : pc[d] \in Running /\ work[d].pending # Nothing
                             => Open(work[d].pending))'
    <3> SUFFICES ASSUME NEW d \in Callers
                 PROVE  (pc[d] \in Running /\ work[d].pending # Nothing
                           => Open(work[d].pending))'
      OBVIOUS
    <3>1. CASE d = c BY <1>3, <1>4, <1>5, <2>4, <3>1 DEF TypeOK
    <3>2. CASE d # c
      <4>1. work'[d] = work[d] /\ pc'[d] = pc[d] BY <1>5, <3>2 DEF TypeOK
      <4>2. pc[d] \in Running => work[d] \in SnapshotType BY DEF CallsOK, CallOK
      <4> QED BY <2>1, <4>1, <4>2 DEF WritesOK, SnapshotType
    <3> QED BY <3>1, <3>2
  <2>7. (\A d \in Callers : grant[d] # Nothing => InFlight(d))'
    BY <1>4, <1>5, <2>2, <2>3 DEF InFlight, TypeOK
  <2>8. (\A j \in WriteIds : staged[j] = Nothing => executed[j] = <<>> /\ j \notin rejected)'
    BY <1>5, <1>3, NullAssumption DEF WritesOK, TypeOK
  <2>9. WritesAsApproved' BY <1>5, <1>6 DEF WritesOK, WritesAsApproved, TypeOK
  <2> QED BY <2>5, <2>6, <2>7, <2>8, <2>9 DEF WritesOK
<1> QED BY <1>7, <1>8, <1>9, <1>10, <1>11, <1>12

-----------------------------------------------------------------------------
(* Taking and leaving an operation *)

LEMMA TryLockStep ==
  ASSUME AppInvariant, NEW c \in Callers, NEW r \in Requests, TryLock(c, r)
  PROVE  AppInvariant'
<1> USE DEF AppInvariant, TryLock, OpFree, writeVars
<1>1. TypeOK' BY DEF TypeOK, Points
<1>2. OneOperation' BY NullAssumption DEF TypeOK, OneOperation, Running, Holding
<1>3. CallsOK'
  BY DEF TypeOK, CallsOK, CallOK, Running, Holding, StorePoints, Connecting
<1>4. PoolsOK' BY DEF TypeOK, PoolsOK, CallsOK, CallOK, Running
<1>5. ConnectionOK' BY DEF TypeOK, ConnectionOK, Agrees, Switched, Running
<1>6. WritesOK' BY DEF TypeOK, WritesOK, Open, InFlight, WritesAsApproved, Running
<1> QED BY <1>1, <1>2, <1>3, <1>4, <1>5, <1>6

LEMMA CloseCancelStep ==
  ASSUME AppInvariant, NEW c \in Callers, NEW r \in Requests, CloseCancel(c, r)
  PROVE  AppInvariant'
<1> USE DEF AppInvariant, CloseCancel, coreVars, writeVars
<1>1. TypeOK' BY DEF TypeOK, Points
<1>2. OneOperation' BY DEF TypeOK, OneOperation, Running, Holding
<1>3. CallsOK'
  BY DEF TypeOK, CallsOK, CallOK, Running, Holding, StorePoints, Connecting
<1>4. PoolsOK' BY DEF TypeOK, PoolsOK, CallsOK, CallOK, Running
<1>5. ConnectionOK' BY DEF TypeOK, ConnectionOK, Agrees, Switched, Running
<1>6. WritesOK' BY DEF TypeOK, WritesOK, Open, InFlight, WritesAsApproved, Running
<1> QED BY <1>1, <1>2, <1>3, <1>4, <1>5, <1>6

(* Both end a call that runs nothing. *)
LEMMA UnlockStep ==
  ASSUME AppInvariant, NEW c \in Callers, BeginClosed(c) \/ Unlock(c)
  PROVE  AppInvariant'
<1> USE DEF AppInvariant, writeVars
<1>1. /\ pc[c] \in {"locked", "unlock"} /\ op' = Nothing
      /\ pc' = [pc EXCEPT ![c] = "idle"] /\ req' = [req EXCEPT ![c] = Nothing]
      /\ UNCHANGED <<cancel, closed, store, opened, profiles, views, state, events,
                     done, work, draft, failed, writeVars>>
  BY DEF BeginClosed, Unlock
<1>2. TypeOK' BY <1>1 DEF TypeOK, Points
<1>3. OneOperation' BY <1>1, NullAssumption DEF TypeOK, OneOperation, Running, Holding
<1>4. CallsOK'
  BY <1>1 DEF TypeOK, CallsOK, CallOK, Running, Holding, StorePoints, Connecting
<1>5. PoolsOK' BY <1>1 DEF TypeOK, PoolsOK, CallsOK, CallOK, Running
<1>6. ConnectionOK' BY <1>1 DEF TypeOK, ConnectionOK, Agrees, Switched, Running
<1>7. WritesOK' BY <1>1 DEF TypeOK, WritesOK, Open, InFlight, WritesAsApproved, Running
<1> QED BY <1>2, <1>3, <1>4, <1>5, <1>6, <1>7

LEMMA BeginStep ==
  ASSUME AppInvariant, NEW c \in Callers, Begin(c) PROVE AppInvariant'
<1> USE DEF AppInvariant, writeVars
<1>1. /\ pc[c] = "locked" /\ req[c].type \in Operations /\ ~closed /\ cancel' = c
      /\ done' = [done EXCEPT ![c] = FALSE]
      /\ work' = [work EXCEPT ![c] = state'] /\ failed' = [failed EXCEPT ![c] = FALSE]
      /\ pc' = [pc EXCEPT ![c] = "perform"]
      /\ UNCHANGED <<op, closed, store, opened, profiles, views, req, draft, grant,
                     staged, lapsed, rejected, executed, applied>>
  BY DEF Begin, Closed
<1>2. /\ state' \in SnapshotType /\ events' \in SnapshotType /\ state'.busy = TRUE
      /\ state'.pending = state.pending /\ state'.connection = state.connection
  BY WithBusy DEF Begin, Publish, TypeOK
<1>3. \A d \in Callers : pc[d] \notin Running
  BY <1>1 DEF OneOperation, TypeOK, Holding, Running
<1>4. TypeOK' BY <1>1, <1>2 DEF TypeOK, Points, Running
<1>5. OneOperation' BY <1>1, <1>2, <1>3 DEF TypeOK, OneOperation, Running, Holding
<1>6. CallsOK'
  BY <1>1, <1>2 DEF TypeOK, CallsOK, CallOK, Running, Holding, StorePoints, Connecting
<1>7. PoolsOK' BY <1>1 DEF TypeOK, PoolsOK, CallsOK, CallOK, Running
<1>8. ConnectionOK'
  BY <1>1, <1>2, <1>3 DEF TypeOK, ConnectionOK, Agrees, Switched, Running
<1>9. WritesOK'
  BY <1>1, <1>2, <1>3 DEF TypeOK, WritesOK, Open, InFlight, WritesAsApproved, Running, CallsOK, CallOK
<1> QED BY <1>4, <1>5, <1>6, <1>7, <1>8, <1>9

LEMMA FinishStep ==
  ASSUME AppInvariant, NEW c \in Callers, Finish(c) PROVE AppInvariant'
<1> USE DEF AppInvariant, writeVars
<1> DEFINE s == IF failed[c] THEN state ELSE work[c]
<1>1. /\ pc[c] = "finish" /\ cancel' = Nothing /\ work' = [work EXCEPT ![c] = Nothing]
      /\ done' = [done EXCEPT ![c] = FALSE] /\ failed' = [failed EXCEPT ![c] = FALSE]
      /\ pc' = [pc EXCEPT ![c] = "unlock"]
      /\ UNCHANGED <<op, closed, store, opened, profiles, views, req, draft, grant,
                     staged, lapsed, rejected, executed, applied>>
  BY DEF Finish
<1>2. s \in SnapshotType BY <1>1 DEF TypeOK, CallsOK, CallOK, Running
<1>3. /\ state' \in SnapshotType /\ events' \in SnapshotType /\ state'.busy = FALSE
      /\ state'.pending = s.pending /\ state'.connection = s.connection
  BY <1>2, WithBusy DEF Finish, Publish
<1>4. \A d \in Callers : pc[d] \in Running => d = c
  BY <1>1 DEF OneOperation, Running
<1>5. TypeOK' BY <1>1, <1>3 DEF TypeOK, Points
<1>6. OneOperation'
  BY <1>1, <1>3, <1>4, NullAssumption DEF TypeOK, OneOperation, Running, Holding
<1>7. CallsOK'
  BY <1>1 DEF TypeOK, CallsOK, CallOK, Running, Holding, StorePoints, Connecting
<1>8. PoolsOK' BY <1>1 DEF TypeOK, PoolsOK, Running
<1>9. ConnectionOK'
  BY <1>1, <1>3, <1>4 DEF TypeOK, ConnectionOK, Agrees, Switched, Running
<1>10. WritesOK'
  <2>1. s.pending # Nothing => Open(s.pending) BY <1>1 DEF WritesOK, Running
  <2>2. (state.pending # Nothing => Open(state.pending))'
    BY <1>1, <1>3, <2>1 DEF Open
  <2> QED BY <1>1, <1>4, <2>2
          DEF TypeOK, WritesOK, Open, InFlight, WritesAsApproved, Running, CallsOK, CallOK
<1> QED BY <1>5, <1>6, <1>7, <1>8, <1>9, <1>10

LEMMA TimeoutStep ==
  ASSUME AppInvariant, Cancel \/ \E c \in Callers : Timeout(c) PROVE AppInvariant'
<1> USE DEF AppInvariant, coreVars, writeVars
<1>1. /\ done' \in [Callers -> BOOLEAN]
      /\ UNCHANGED <<coreVars, pc, req, work, draft, failed, writeVars>>
  BY DEF Cancel, Timeout, TypeOK
<1>2. TypeOK' BY <1>1 DEF TypeOK
<1>3. OneOperation' BY <1>1 DEF OneOperation
<1>4. CallsOK' BY <1>1 DEF CallsOK, CallOK
<1>5. PoolsOK' BY <1>1 DEF PoolsOK
<1>6. ConnectionOK' BY <1>1 DEF ConnectionOK, Agrees, Switched
<1>7. WritesOK' BY <1>1 DEF WritesOK, Open, InFlight, WritesAsApproved
<1> QED BY <1>2, <1>3, <1>4, <1>5, <1>6, <1>7

LEMMA CloseLockedStep ==
  ASSUME AppInvariant, NEW c \in Callers, CloseLocked(c) PROVE AppInvariant'
<1> USE DEF AppInvariant, CloseLocked, OpFree, writeVars
<1>1. \A d \in Callers : pc[d] \notin Holding
  BY NullAssumption DEF OneOperation, TypeOK
<1>2. TypeOK' BY DEF TypeOK, Points
<1>3. OneOperation' BY <1>1 DEF TypeOK, OneOperation, Running, Holding
<1>4. CallsOK'
  BY DEF TypeOK, CallsOK, CallOK, Running, Holding, StorePoints, Connecting
<1>5. PoolsOK' BY <1>1 DEF TypeOK, PoolsOK, CallsOK, CallOK, Holding, Running
<1>6. ConnectionOK' BY DEF ConnectionOK
<1>7. WritesOK' BY <1>1 DEF TypeOK, WritesOK, Open, InFlight, WritesAsApproved, Running
<1> QED BY <1>2, <1>3, <1>4, <1>5, <1>6, <1>7

LEMMA LapseStep ==
  ASSUME AppInvariant, Lapse PROVE AppInvariant'
<1> USE DEF AppInvariant, Lapse, coreVars, callVars
<1>1. TypeOK' BY DEF TypeOK
<1>2. OneOperation' BY DEF OneOperation
<1>3. CallsOK' BY DEF CallsOK, CallOK
<1>4. PoolsOK' BY DEF PoolsOK
<1>5. ConnectionOK' BY DEF ConnectionOK, Agrees, Switched
<1>6. WritesOK' BY DEF WritesOK, Open, InFlight, WritesAsApproved
<1> QED BY <1>1, <1>2, <1>3, <1>4, <1>5, <1>6

LEMMA ReceiveStep ==
  ASSUME AppInvariant, Receive PROVE AppInvariant'
<1> USE DEF AppInvariant, Receive, callVars, writeVars
<1>1. TypeOK' BY DEF TypeOK
<1>2. OneOperation' BY DEF OneOperation
<1>3. CallsOK' BY DEF CallsOK, CallOK
<1>4. PoolsOK' BY DEF PoolsOK
<1>5. ConnectionOK' BY DEF ConnectionOK, Agrees, Switched
<1>6. WritesOK' BY DEF WritesOK, Open, InFlight, WritesAsApproved
<1> QED BY <1>1, <1>2, <1>3, <1>4, <1>5, <1>6

-----------------------------------------------------------------------------
(* Calls that hold op and mu throughout *)

LEMMA AddProfileStep ==
  ASSUME AppInvariant, NEW c \in Callers, AddProfile(c) PROVE AppInvariant'
<1> USE DEF AppInvariant, AddProfile, Closed, coreVars, callVars, writeVars
<1>a. req[c].name \in Names \cup {Nothing} BY CallTyped DEF Holding, RequestType
<1>b. state \in SnapshotType /\ events \in SnapshotType \cup {Nothing} /\ profiles \in Seq(Names) BY DEF TypeOK
<1>c. /\ state' \in SnapshotType /\ events' \in SnapshotType \cup {Nothing}
      /\ profiles' \in Seq(Names)
      /\ state'.busy = state.busy /\ state'.pending = state.pending
      /\ state'.connection = state.connection
  <2>1. CASE ~Connectable(req[c].name) BY <1>b, <2>1
  <2>2. CASE Connectable(req[c].name) 
    <3>1. req[c].name \in Names BY <1>a, <2>2 DEF Connectable
    <3>2. Append(profiles, req[c].name) \in Seq(Names) BY <1>b, <3>1
    <3> QED BY <1>b, <2>2, <3>1, <3>2, WithConnection DEF Publish
  <2> QED BY <2>1, <2>2
<1> HIDE DEF AddProfile
<1>d. /\ pc[c] = "locked" /\ pc' = [pc EXCEPT ![c] = "unlock"]
      /\ UNCHANGED <<op, cancel, closed, store, opened, views, req, done, work, draft,
                   failed, writeVars>> BY DEF AddProfile
<1>1. TypeOK' BY <1>c, <1>d DEF TypeOK, Points, Running
<1>2. OneOperation' BY <1>c, <1>d DEF TypeOK, OneOperation, Points, Running, Holding
<1>3. CallsOK' BY <1>d DEF TypeOK, CallsOK, CallOK, Running, Holding, StorePoints, Connecting, Testing
<1>4. PoolsOK' BY <1>d DEF TypeOK, PoolsOK, Running
<1>5. ConnectionOK' BY <1>c, <1>d DEF TypeOK, ConnectionOK, Agrees, Switched, Running
<1>6. WritesOK'
  BY <1>c, <1>d DEF TypeOK, WritesOK, Open, InFlight, WritesAsApproved, Running
<1> QED BY <1>1, <1>2, <1>3, <1>4, <1>5, <1>6

LEMMA RejectStep ==
  ASSUME AppInvariant, NEW c \in Callers, Reject(c) PROVE AppInvariant'
<1> USE DEF AppInvariant
<1>1. /\ pc[c] = "locked" /\ pc' = [pc EXCEPT ![c] = "unlock"]
      /\ UNCHANGED <<op, cancel, closed, store, opened, profiles, views, req, done, work,
                     draft, failed, grant, staged, lapsed, executed, applied>>
  BY DEF Reject
<1>2. state \in SnapshotType /\ events \in SnapshotType \cup {Nothing} BY DEF TypeOK
<1>3. \A d \in Callers : pc[d] \notin Running /\ grant[d] = Nothing
  BY <1>1 DEF OneOperation, CallsOK, CallOK, TypeOK, Holding, Running
<1>4. /\ state' \in SnapshotType /\ events' \in SnapshotType \cup {Nothing}
      /\ state'.busy = state.busy /\ state'.connection = state.connection
      /\ \/ rejected' = rejected /\ state'.pending = state.pending
         \/ /\ state'.pending = Nothing /\ state.pending # Nothing
            /\ rejected' = rejected \cup {state.pending.id}
  <2> DEFINE found == state.pending # Nothing /\ state.pending.id = req[c].id
  <2>1. CASE found
    <3>1. state' = [state EXCEPT !.pending = Nothing] /\ events' = state'
          /\ rejected' = rejected \cup {state.pending.id}
      BY <2>1 DEF Reject, Publish
    <3> HIDE DEF found
    <3> QED BY <1>2, <2>1, <3>1, WithPending DEF found
  <2>2. CASE ~found
    <3>1. UNCHANGED <<state, events, rejected>> BY <2>2 DEF Reject
    <3> QED BY <1>2, <3>1
  <2> QED BY <2>1, <2>2
<1>5. state.pending # Nothing => state.pending \in WriteType /\ Open(state.pending)
  BY <1>2 DEF WritesOK, SnapshotType
<1>6. TypeOK' BY <1>1, <1>4, <1>5 DEF TypeOK, Points, WriteType
<1>7. OneOperation' BY <1>1, <1>4 DEF TypeOK, OneOperation, Running, Holding
<1>8. CallsOK'
  BY <1>1 DEF TypeOK, CallsOK, CallOK, Running, Holding, StorePoints, Connecting
<1>9. PoolsOK' BY <1>1 DEF TypeOK, PoolsOK, Running
<1>10. ConnectionOK' BY <1>1, <1>3, <1>4 DEF TypeOK, ConnectionOK, Agrees, Switched, Running
<1>11. WritesOK'
  <2>1. (state.pending # Nothing => Open(state.pending))'
    BY <1>1, <1>4, <1>5, NullAssumption DEF Open, WriteType
  <2>2. \A d \in Callers : pc'[d] \notin Running /\ grant'[d] = Nothing
    BY <1>1, <1>3 DEF TypeOK, Running
  <2>3. (\A i \in WriteIds : staged[i] = Nothing => executed[i] = <<>> /\ i \notin rejected)'
    BY <1>1, <1>4, <1>5, NullAssumption DEF WritesOK, Open
  <2>4. WritesAsApproved'
    BY <1>1, <1>4, <1>5 DEF WritesOK, WritesAsApproved, Open
  <2> QED BY <2>1, <2>2, <2>3, <2>4 DEF WritesOK
<1> QED BY <1>6, <1>7, <1>8, <1>9, <1>10, <1>11

-----------------------------------------------------------------------------
(* Approve *)

LEMMA ApproveRefusedStep ==
  ASSUME AppInvariant, NEW c \in Callers, ApproveRefused(c) PROVE AppInvariant'
BY FailMoves DEF ApproveRefused, Rest, coreVars, Switched, Running

LEMMA ApproveCheckedStep ==
  ASSUME AppInvariant, NEW c \in Callers, ApproveChecked(c) PROVE AppInvariant'
<1>1. work[c] \in SnapshotType BY CallTyped DEF ApproveChecked, Running, Holding
<1>2. /\ work[c].pending # Nothing /\ work[c].pending.id = req[c].id
      /\ work[c].pending.connection = work[c].connection
  BY DEF ApproveChecked, Approvable
<1>3. store # Nothing
  <2>1. work[c].pending.connection \in Names BY <1>1, <1>2 DEF SnapshotType, WriteType
  <2>2. Agrees(work[c])
    BY DEF ApproveChecked, Running, AppInvariant, PoolsOK, ConnectionOK
  <2> QED BY <1>2, <2>1, <2>2, NullAssumption DEF Agrees
<1> QED BY <1>1, <1>2, <1>3, GotoMoves
        DEF ApproveChecked, Connecting, Running, StorePoints, Switched, Rest, coreVars

LEMMA ConsumeStep ==
  ASSUME AppInvariant, NEW c \in Callers, Consume(c) PROVE AppInvariant'
<1> USE DEF AppInvariant
<1> DEFINE w == work[c]
           p == work[c].pending
<1>1. /\ pc[c] = "approve" /\ pc' = [pc EXCEPT ![c] = "execute"]
      /\ work' = [work EXCEPT ![c] = Consumed(w)] /\ grant' = [grant EXCEPT ![c] = p]
      /\ UNCHANGED <<op, cancel, closed, store, opened, profiles, views, req, done,
                     draft, failed, staged, lapsed, rejected, executed, applied>>
  BY DEF Consume, Goto
<1>2. w \in SnapshotType /\ state \in SnapshotType BY <1>1 DEF TypeOK, CallsOK, CallOK, Running
<1>3. /\ p \in WriteType /\ p # Nothing /\ p.connection = w.connection /\ Open(p)
      /\ store # Nothing
  BY <1>1, <1>2 DEF CallsOK, CallOK, WritesOK, SnapshotType, Running, StorePoints
<1>4. /\ Consumed(w) \in SnapshotType /\ Consumed(w).pending = Nothing
      /\ Consumed(w).connection = w.connection
  BY <1>2, WithPending DEF Consumed
<1>5. /\ state' \in SnapshotType /\ events' \in SnapshotType
      /\ state'.busy = state.busy /\ state'.connection = state.connection
      /\ state'.pending = Nothing
  BY <1>2, WithPending DEF Consume, Publish, Consumed
<1>6. \A d \in Callers : pc[d] \in Running => d = c BY <1>1 DEF OneOperation, Running
<1> HIDE DEF p, w
<1>7. TypeOK' BY <1>1, <1>3, <1>4, <1>5 DEF TypeOK, Points, Running
<1>8. OneOperation' BY <1>1, <1>5 DEF TypeOK, OneOperation, Running, Holding
<1>9. CallsOK'
  BY <1>1, <1>3, <1>4 DEF TypeOK, CallsOK, CallOK, Running, Holding, StorePoints, Connecting
<1>10. PoolsOK' BY <1>1 DEF TypeOK, PoolsOK, Running
<1>11. ConnectionOK'
  BY <1>1, <1>4, <1>5, <1>6 DEF w, TypeOK, ConnectionOK, Agrees, Switched, Running
<1>12. WritesOK'
  BY <1>1, <1>3, <1>4, <1>5, <1>6
     DEF p, w, TypeOK, WritesOK, Open, InFlight, WritesAsApproved, CallsOK, CallOK, Running
<1> QED BY <1>7, <1>8, <1>9, <1>10, <1>11, <1>12

(* Whatever Execute answers, the write is spent. *)
LEMMA SentStep ==
  ASSUME AppInvariant, NEW c \in Callers, Execute(c) \/ ExecuteFails(c)
  PROVE  AppInvariant'
<1> USE DEF AppInvariant
<1> DEFINE g == grant[c]
           e == [grant[c] EXCEPT !.connection = opened[store]]
<1>1. /\ pc[c] = "execute" /\ grant' = [grant EXCEPT ![c] = Nothing]
      /\ executed' = [executed EXCEPT ![g.id] = Append(@, e)]
      /\ UNCHANGED <<op, cancel, closed, store, opened, profiles, views, state, events,
                     req, done, draft, staged, lapsed, rejected>>
  BY DEF Execute, ExecuteFails, Sent, coreVars
<1>2. /\ g # Nothing /\ g \in WriteType /\ InFlight(c) /\ store # Nothing
      /\ g.id \in WriteIds
  BY <1>1 DEF TypeOK, CallsOK, CallOK, WritesOK, StorePoints, WriteType
<1>3. e = g
  <2>1. g.connection = opened[store] BY <1>1, <1>2, StoreOpen DEF InFlight, Running
  <2> QED BY <1>2, <2>1 DEF WriteType
<1>4. executed'[g.id] = <<staged[g.id]>> /\ executed' \in [WriteIds -> Seq(WriteType)]
  <2>1. executed[g.id] = <<>> /\ staged[g.id] = g BY <1>2 DEF InFlight
  <2>2. Append(<<>>, g) = <<g>> OBVIOUS
  <2>3. <<g>> \in Seq(WriteType) BY <1>2
  <2> QED BY <1>1, <1>2, <1>3, <2>1, <2>2, <2>3 DEF TypeOK
<1>5. /\ applied' \subseteq WriteIds
      /\ \E b \in BOOLEAN : failed' = [failed EXCEPT ![c] = b]
      /\ \/ pc' = [pc EXCEPT ![c] = "approve-tables"] /\ ~failed'[c]
         \/ pc' = [pc EXCEPT ![c] = "finish"] /\ failed'[c]
      /\ work' = [work EXCEPT ![c] = work[c]]
  <2>1. ~failed[c] /\ failed \in [Callers -> BOOLEAN] /\ work = [work EXCEPT ![c] = work[c]]
    BY <1>1 DEF TypeOK, CallsOK, CallOK, Running
  <2>2. CASE Execute(c)
    BY <1>2, <2>1, <2>2 DEF Execute, Goto, TypeOK
  <2>3. CASE ExecuteFails(c)
    BY <2>1, <2>3 DEF ExecuteFails, Fail, TypeOK
  <2> QED BY <2>2, <2>3
<1>6. \A d \in Callers : pc[d] \in Running => d = c BY <1>1 DEF OneOperation, Running
<1>7. work[c].pending = Nothing \/ Open(work[c].pending)
  BY <1>1 DEF WritesOK, Running
<1> HIDE DEF g, e
<1>8. TypeOK' BY <1>1, <1>4, <1>5 DEF TypeOK, Points, Running
<1>9. OneOperation' BY <1>1, <1>5 DEF TypeOK, OneOperation, Running, Holding
<1>10. CallsOK'
  BY <1>1, <1>2, <1>5
     DEF TypeOK, CallsOK, CallOK, Running, Holding, StorePoints, Connecting
<1>11. PoolsOK' BY <1>1, <1>5 DEF TypeOK, PoolsOK, Running
<1>12. ConnectionOK' BY <1>1, <1>5, <1>6 DEF TypeOK, ConnectionOK, Agrees, Switched, Running
<1>13. WritesOK'
  <2>1. \A d \in Callers : grant'[d] = Nothing
    BY <1>1, <1>6 DEF TypeOK, CallsOK, CallOK, Running
  <2>2. \A q \in WriteType : Open(q) => Open(q)' /\ q.id # g.id
    BY <1>1, <1>2, <2>1 DEF Open, TypeOK, WriteType, g
  <2>3. (state.pending # Nothing => Open(state.pending))'
    BY <1>1, <2>2 DEF WritesOK, TypeOK, SnapshotType
  <2>4. (\A d \in Callers : pc[d] \in Running /\ work[d].pending # Nothing
                             => Open(work[d].pending))'
    <3> SUFFICES ASSUME NEW d \in Callers
                 PROVE  (pc[d] \in Running /\ work[d].pending # Nothing
                           => Open(work[d].pending))'
      OBVIOUS
    <3>1. work'[d] = work[d] /\ (pc'[d] \in Running => pc[d] \in Running)
      BY <1>1, <1>5 DEF TypeOK, Running
    <3>2. pc[d] \in Running => work[d] \in SnapshotType BY DEF CallsOK, CallOK
    <3> QED BY <2>2, <3>1, <3>2 DEF WritesOK, SnapshotType
  <2>5. (\A i \in WriteIds : staged[i] = Nothing => executed[i] = <<>> /\ i \notin rejected)'
    BY <1>1, <1>2, NullAssumption DEF WritesOK, InFlight, g, TypeOK
  <2>6. WritesAsApproved'
    BY <1>1, <1>2, <1>4 DEF WritesOK, WritesAsApproved, InFlight, g, TypeOK
  <2> QED BY <2>1, <2>3, <2>4, <2>5, <2>6 DEF WritesOK
<1> QED BY <1>8, <1>9, <1>10, <1>11, <1>12, <1>13

-----------------------------------------------------------------------------
(* Calls of the store that change only the working copy *)

LEMMA RowsTyped ==
  ASSUME AppInvariant, NEW c \in Callers, pc[c] \in Running, store # Nothing,
         NEW of \in BrowseType \cup SQLs, NEW more \in BOOLEAN
  PROVE  Rows(of, more) \in [connection : Names, of : BrowseType \cup SQLs,
                             more : BOOLEAN, after : SUBSET WriteIds]
BY StoreOpen DEF Rows, AppInvariant, TypeOK

LEMMA LoadedTyped ==
  ASSUME AppInvariant, NEW c \in Callers, pc[c] \in Running, store # Nothing,
         NEW s \in SnapshotType, s.browse.table # Nothing, NEW more \in BOOLEAN
  PROVE  /\ Loaded(s, more) \in SnapshotType
         /\ Loaded(s, more).connection = s.connection
         /\ Loaded(s, more).pending = s.pending
<1>1. s.browse \in BrowseType /\ s.browse.table \in Tables BY DEF SnapshotType, BrowseType
<1>2. opened[store] \in Names BY StoreOpen
<1> DEFINE schema == [connection |-> opened[store], table |-> s.browse.table]
           rows == Rows(s.browse, more)
<1>3. schema \in [connection : Names, table : Tables] BY <1>1, <1>2
<1>4. rows \in [connection : Names, of : BrowseType \cup SQLs, more : BOOLEAN,
                after : SUBSET WriteIds]
  BY <1>1, RowsTyped
<1>5. Loaded(s, more) = [s EXCEPT !.schema = schema, !.result = rows, !.query = FALSE]
  BY DEF Loaded
<1> HIDE DEF schema, rows
<1> QED BY <1>3, <1>4, <1>5 DEF SnapshotType

LEMMA WithProfileTyped ==
  ASSUME NEW r \in RequestType, NEW s \in SnapshotType,
         r.type = "setup" => r.name \in Names
  PROVE  /\ WithProfile(r, s) \in SnapshotType
         /\ WithProfile(r, s).connection = s.connection
         /\ WithProfile(r, s).pending = s.pending
BY WithConnection DEF WithProfile

LEMMA InstalledTyped ==
  ASSUME NEW r \in RequestType, profiles \in Seq(Names), Installed(r),
         r.type = "setup" => r.name \in Names
  PROVE  profiles' \in Seq(Names)
BY DEF Installed

LEMMA UnshownTyped ==
  ASSUME NEW s \in SnapshotType
  PROVE  /\ [s EXCEPT !.result = Nothing, !.query = FALSE] \in SnapshotType
         /\ Unshown(s) \in SnapshotType
         /\ Unshown(s).connection = s.connection /\ Unshown(s).pending = s.pending
BY DEF Unshown, SnapshotType

LEMMA EmptiedTyped ==
  ASSUME NEW s \in SnapshotType
  PROVE  /\ Emptied(s) \in SnapshotType
         /\ Emptied(s).connection = s.connection /\ Emptied(s).pending = s.pending
<1>1. EmptyBrowse \in BrowseType
  BY PageAssumption DEF EmptyBrowse, FirstPage, BrowseType
<1> QED BY <1>1 DEF Emptied, SnapshotType

(* What a call at the point "load" relies on. *)
LEMMA AtLoad ==
  ASSUME AppInvariant, NEW c \in Callers, pc[c] = "load"
  PROVE  /\ req[c] \in RequestType /\ work[c] \in SnapshotType
         /\ store # Nothing /\ work[c].browse.table # Nothing
         /\ req[c].type = "setup" => req[c].name \in Names
         /\ profiles \in Seq(Names) /\ pc[c] \in Running \ {"connect-tables", "execute"}
<1>1. CallOK(c) BY DEF AppInvariant, CallsOK
<1>2. req[c] \in RequestType /\ work[c] \in SnapshotType
  BY CallTyped DEF Running, Holding
<1>3. req[c].type = "setup" => req[c].name \in Names
  BY <1>1, <1>2 DEF CallOK, Connecting, RequestType
<1> QED BY <1>1, <1>2, <1>3 DEF CallOK, StorePoints, Running, AppInvariant, TypeOK

LEMMA LoadStep ==
  ASSUME AppInvariant, NEW c \in Callers, Load(c) PROVE AppInvariant'
<1>1. pc[c] = "load" BY DEF Load
<1>2. PICK more \in BOOLEAN : Return(c, WithProfile(req[c], Loaded(work[c], more)))
  BY DEF Load
<1> DEFINE s == WithProfile(req[c], Loaded(work[c], more))
<1>3. s \in SnapshotType /\ s.connection = work[c].connection /\ s.pending = work[c].pending
  BY <1>1, AtLoad, LoadedTyped, WithProfileTyped
<1>4. profiles' \in Seq(Names) BY <1>1, AtLoad, InstalledTyped DEF Load
<1>5. UNCHANGED Rest BY DEF Load, Rest
<1>6. Return(c, s) BY <1>2
<1> HIDE DEF s
<1> QED BY <1>1, <1>3, <1>4, <1>5, <1>6, AtLoad, ReturnMoves

LEMMA ConnectLoadFailsStep ==
  ASSUME AppInvariant, NEW c \in Callers, ConnectLoadFails(c) PROVE AppInvariant'
<1>1. pc[c] = "load" BY DEF ConnectLoadFails
<1> DEFINE s == WithProfile(req[c], work[c])
<1>2. s \in SnapshotType /\ s.connection = work[c].connection /\ s.pending = work[c].pending
  BY <1>1, AtLoad, WithProfileTyped
<1>3. profiles' \in Seq(Names) BY <1>1, AtLoad, InstalledTyped DEF ConnectLoadFails
<1>4. UNCHANGED Rest /\ Return(c, s) BY DEF ConnectLoadFails, Rest
<1> HIDE DEF s
<1> QED BY <1>1, <1>2, <1>3, <1>4, AtLoad, ReturnMoves

LEMMA RefreshLoadFailsStep ==
  ASSUME AppInvariant, NEW c \in Callers, RefreshLoadFails(c) PROVE AppInvariant'
<1>1. pc[c] = "load" BY DEF RefreshLoadFails
<1> DEFINE s == [work[c] EXCEPT !.result = Nothing, !.query = FALSE]
<1>2. s \in SnapshotType BY <1>1, AtLoad, UnshownTyped
<1>3. s.connection = work[c].connection /\ s.pending = work[c].pending
  BY <1>1, AtLoad DEF SnapshotType
<1>4. UNCHANGED <<profiles, Rest>> /\ Return(c, s)
  BY DEF RefreshLoadFails, Rest, coreVars
<1> HIDE DEF s
<1> QED BY <1>1, <1>2, <1>3, <1>4, AtLoad, ReturnMoves

LEMMA ApproveLoadFailsStep ==
  ASSUME AppInvariant, NEW c \in Callers, ApproveLoadFails(c) PROVE AppInvariant'
<1>1. pc[c] = "load" BY DEF ApproveLoadFails
<1>2. UNCHANGED <<profiles, Rest>> /\ Return(c, Unshown(work[c]))
  BY DEF ApproveLoadFails, Rest, coreVars
<1> QED BY <1>1, <1>2, AtLoad, UnshownTyped, ReturnMoves

LEMMA ApproveTablesFailStep ==
  ASSUME AppInvariant, NEW c \in Callers, ApproveTablesFail(c) PROVE AppInvariant'
<1>1. pc[c] = "approve-tables" BY DEF ApproveTablesFail
<1>2. UNCHANGED <<profiles, Rest>> /\ Return(c, Unshown(work[c]))
  BY DEF ApproveTablesFail, Rest, coreVars
<1>3. work[c] \in SnapshotType /\ profiles \in Seq(Names)
  BY <1>1, CallTyped DEF Running, Holding, AppInvariant, TypeOK
<1> QED BY <1>1, <1>2, <1>3, UnshownTyped, ReturnMoves DEF Running

LEMMA FailsStep ==
  ASSUME AppInvariant, NEW c \in Callers,
         OpenFails(c) \/ LoadFails(c) \/ RefreshTablesFail(c) \/ QueryFails(c)
  PROVE  AppInvariant'
<1>1. /\ pc[c] \in {"open", "load", "refresh-tables", "query"} /\ Fail(c)
      /\ pc[c] = "load" => req[c].type \in BrowseActions
      /\ UNCHANGED <<profiles, Rest>>
  BY DEF OpenFails, LoadFails, RefreshTablesFail, QueryFails, Rest, coreVars
<1> QED BY <1>1, FailMoves DEF Switched, Running, BrowseActions

LEMMA RelistStep ==
  ASSUME AppInvariant, NEW c \in Callers, RefreshTables(c) \/ ApproveTables(c)
  PROVE  AppInvariant'
<1>1. PICK p \in {"refresh-tables", "approve-tables"} : Relist(c, p)
  BY DEF RefreshTables, ApproveTables
<1>2. pc[c] \in {"refresh-tables", "approve-tables"} /\ UNCHANGED <<profiles, Rest>>
  BY <1>1 DEF Relist, Rest, coreVars
<1>3. PICK tables \in SUBSET Tables :
        LET s == [work[c] EXCEPT !.tables = tables]
        IN IF s.browse.table \in tables THEN Goto(c, "load", s) ELSE Return(c, Emptied(s))
  BY <1>1 DEF Relist
<1> DEFINE s == [work[c] EXCEPT !.tables = tables]
<1>4. work[c] \in SnapshotType /\ profiles \in Seq(Names) /\ store # Nothing
  BY <1>2, CallTyped
     DEF Running, Holding, StorePoints, AppInvariant, TypeOK, CallsOK, CallOK
<1>5. s \in SnapshotType /\ s.connection = work[c].connection /\ s.pending = work[c].pending
  BY <1>4 DEF SnapshotType
<1>6. IF s.browse.table \in tables THEN Goto(c, "load", s) ELSE Return(c, Emptied(s))
  BY <1>3
<1> HIDE DEF s
<1>7. CASE s.browse.table \in tables
  <2>1. s.browse.table # Nothing BY <1>7, NullAssumption
  <2>2. ~Connecting(req[c])
    BY <1>2 DEF AppInvariant, CallsOK, CallOK, StorePoints
  <2> QED BY <1>2, <1>4, <1>5, <1>6, <1>7, <2>1, <2>2, GotoMoves
          DEF Running, StorePoints, Switched
<1>8. CASE s.browse.table \notin tables
  BY <1>2, <1>4, <1>5, <1>6, <1>8, EmptiedTyped, ReturnMoves DEF Running
<1> QED BY <1>7, <1>8

LEMMA QueryStep ==
  ASSUME AppInvariant, NEW c \in Callers, Query(c) PROVE AppInvariant'
<1>1. pc[c] = "query" /\ UNCHANGED <<profiles, Rest>>
  BY DEF Query, Rest, coreVars
<1>2. PICK more \in BOOLEAN :
        Return(c, [work[c] EXCEPT !.result = Rows(req[c].sql, more), !.query = TRUE])
  BY DEF Query
<1> DEFINE rows == Rows(req[c].sql, more)
           s == [work[c] EXCEPT !.result = rows, !.query = TRUE]
<1>3. /\ work[c] \in SnapshotType /\ req[c] \in RequestType /\ profiles \in Seq(Names)
      /\ store # Nothing /\ req[c].sql # Nothing
  BY <1>1, CallTyped
     DEF Running, Holding, StorePoints, AppInvariant, TypeOK, CallsOK, CallOK
<1>4. rows \in [connection : Names, of : BrowseType \cup SQLs, more : BOOLEAN,
                after : SUBSET WriteIds]
  BY <1>1, <1>3, RowsTyped DEF RequestType, Running
<1>5. Return(c, s) BY <1>2
<1> HIDE DEF rows
<1>6. s \in SnapshotType /\ s.connection = work[c].connection /\ s.pending = work[c].pending
  BY <1>3, <1>4 DEF SnapshotType
<1> HIDE DEF s
<1> QED BY <1>1, <1>3, <1>5, <1>6, ReturnMoves DEF Running

-----------------------------------------------------------------------------
(* connectProfile *)

LEMMA OpenStoreStep ==
  ASSUME AppInvariant, NEW c \in Callers, OpenStore(c) PROVE AppInvariant'
<1>1. /\ pc[c] = "open" /\ pc[c] \in Running
      /\ UNCHANGED <<op, cancel, closed, store, profiles, views, state, events, req,
                     done, writeVars>>
  BY DEF OpenStore, Running
<1>2. /\ work[c] \in SnapshotType /\ profiles \in Seq(Names) /\ ~closed
      /\ req[c].name \in Names /\ Connecting(req[c])
  <2>1. CallOK(c) BY DEF AppInvariant, CallsOK
  <2>2. req[c] \in RequestType /\ work[c] \in SnapshotType
    BY <1>1, CallTyped DEF Holding, Running
  <2> QED BY <1>1, <2>1, <2>2 DEF CallOK, RequestType, AppInvariant, TypeOK, PoolsOK
<1>3. CASE Testing(req[c])
  <2>1. Return(c, work[c]) /\ UNCHANGED <<opened, draft>> BY <1>3 DEF OpenStore
  <2> QED BY <1>1, <1>2, <2>1, ReturnMoves DEF Running, Rest
<1>4. CASE ~Testing(req[c])
  <2> USE DEF AppInvariant, writeVars
  <2>1. PICK h \in Handles :
          /\ opened[h] = Nothing /\ opened' = [opened EXCEPT ![h] = req[c].name]
          /\ draft' = [draft EXCEPT ![c] = h] /\ Goto(c, "connect-tables", work[c])
    BY <1>4 DEF OpenStore
  <2>2. /\ work' = [work EXCEPT ![c] = work[c]] /\ failed' = failed
        /\ pc' = [pc EXCEPT ![c] = "connect-tables"]
    BY <2>1 DEF Goto
  <2>3. h # Nothing /\ h # store BY <1>2, <2>1, NullAssumption DEF PoolsOK
  <2>4. \A d \in Callers : d # c => draft[d] = Nothing /\ pc[d] \notin Running
    BY <1>1 DEF OneOperation, CallsOK, CallOK, Running
  <2>5. TypeOK' BY <1>1, <1>2, <2>1, <2>2 DEF TypeOK, Points, Running
  <2>6. OneOperation' BY <1>1, <2>2 DEF TypeOK, OneOperation, Running, Holding
  <2>7. CallsOK'
    BY <1>1, <1>2, <1>4, <2>1, <2>2, <2>3, NullAssumption
       DEF TypeOK, CallsOK, CallOK, Running, StorePoints, Connecting, Testing
  <2>8. PoolsOK' BY <1>1, <1>2, <2>1, <2>2, <2>3, <2>4 DEF TypeOK, PoolsOK
  <2>9. ConnectionOK'
    BY <1>1, <2>1, <2>2, <2>3, <2>4 DEF TypeOK, ConnectionOK, Agrees, Switched, Running
  <2>10. WritesOK'
    BY <1>1, <2>2 DEF TypeOK, WritesOK, Open, InFlight, WritesAsApproved, Running
  <2> QED BY <2>5, <2>6, <2>7, <2>8, <2>9, <2>10
<1> QED BY <1>3, <1>4

(* What connectProfile relies on once it has opened the draft. *)
LEMMA AtConnectTables ==
  ASSUME AppInvariant, NEW c \in Callers, pc[c] = "connect-tables"
  PROVE  /\ work[c] \in SnapshotType /\ req[c] \in RequestType
         /\ req[c].name \in Names /\ req[c].type \in {"connect", "setup"}
         /\ draft[c] \in Handles /\ draft[c] # store /\ opened[draft[c]] = req[c].name
         /\ ~closed /\ ~failed[c] /\ grant[c] = Nothing
         /\ \A d \in Callers : d # c => draft[d] = Nothing /\ pc[d] \notin Running
<1> USE DEF AppInvariant
<1>1. CallOK(c) BY DEF CallsOK
<1>2. req[c] \in RequestType /\ work[c] \in SnapshotType
  BY CallTyped DEF Holding, Running
<1>3. req[c].name \in Names /\ req[c].type \in {"connect", "setup"}
  BY <1>1, <1>2 DEF CallOK, RequestType, Connecting, Testing
<1>4. \A d \in Callers : d # c => draft[d] = Nothing /\ pc[d] \notin Running
  BY DEF OneOperation, CallsOK, CallOK, Running
<1>5. draft[c] \in Handles /\ draft[c] # store /\ opened[draft[c]] = req[c].name
  BY <1>1 DEF CallOK, TypeOK, PoolsOK
<1>6. ~closed /\ ~failed[c] /\ grant[c] = Nothing
  BY <1>1 DEF CallOK, PoolsOK, Running
<1> QED BY <1>2, <1>3, <1>4, <1>5, <1>6

LEMMA ConnectTablesFailStep ==
  ASSUME AppInvariant, NEW c \in Callers, ConnectTablesFail(c) PROVE AppInvariant'
<1> USE DEF AppInvariant, writeVars
<1>1. /\ pc[c] = "connect-tables" /\ pc' = [pc EXCEPT ![c] = "finish"]
      /\ opened' = [opened EXCEPT ![draft[c]] = Nothing]
      /\ draft' = [draft EXCEPT ![c] = Nothing] /\ work' = work
      /\ failed' = [failed EXCEPT ![c] = TRUE]
      /\ UNCHANGED <<op, cancel, closed, store, profiles, views, state, events, req,
                     done, writeVars>>
  BY DEF ConnectTablesFail, Discard, Fail
<1>2. /\ draft[c] \in Handles /\ draft[c] # store /\ ~closed
      /\ \A d \in Callers : d # c => draft[d] = Nothing /\ pc[d] \notin Running
  BY <1>1, AtConnectTables
<1>3. TypeOK' BY <1>1 DEF TypeOK, Points, Running
<1>4. OneOperation' BY <1>1 DEF TypeOK, OneOperation, Running, Holding
<1>5. CallsOK'
  BY <1>1 DEF TypeOK, CallsOK, CallOK, Running, StorePoints
<1>6. PoolsOK' BY <1>1, <1>2 DEF TypeOK, PoolsOK
<1>7. ConnectionOK' BY <1>1, <1>2 DEF TypeOK, ConnectionOK, Agrees, Switched, Running
<1>8. WritesOK' BY <1>1 DEF TypeOK, WritesOK, Open, InFlight, WritesAsApproved, Running
<1> QED BY <1>3, <1>4, <1>5, <1>6, <1>7, <1>8

LEMMA ConnectedTyped ==
  ASSUME NEW s \in SnapshotType, NEW n \in Names, NEW tables \in SUBSET Tables,
         NEW b \in BrowseType
  PROVE  LET t == Connected(s, n, tables, b)
         IN  t \in SnapshotType /\ t.connection = n /\ t.pending = Nothing /\ t.browse = b
BY DEF Connected, SnapshotType

LEMMA SavedTyped ==
  ASSUME AppInvariant, NEW c \in Callers, pc[c] \in Running
  PROVE  Saved(work[c]) \in [Names -> BrowseType \cup {Nothing}]
<1>1. views \in [Names -> BrowseType \cup {Nothing}] BY DEF AppInvariant, TypeOK
<1>2. work[c].browse \in BrowseType
  BY CallTyped DEF Running, Holding, SnapshotType
<1>3. store # Nothing => work[c].connection \in Names BY StoreOpen
<1> QED BY <1>1, <1>2, <1>3 DEF Saved

LEMMA RestoredTyped ==
  ASSUME NEW view \in BrowseType \cup {Nothing}, NEW tables \in SUBSET Tables
  PROVE  Restored(view, tables) \in BrowseType
<1>1. EmptyBrowse \in BrowseType
  BY PageAssumption DEF EmptyBrowse, FirstPage, BrowseType
<1>2. view # Nothing => FirstPage(Nothing, Nothing, view.limit) \in BrowseType
  BY PageAssumption DEF FirstPage, BrowseType
<1> QED BY <1>1, <1>2 DEF Restored

LEMMA SwitchStep ==
  ASSUME AppInvariant, NEW c \in Callers, Switch(c) PROVE AppInvariant'
<1> USE DEF AppInvariant, writeVars
<1>1. /\ pc[c] = "connect-tables" /\ pc[c] \in Running
      /\ views' = Saved(work[c])
      /\ opened' = [h \in Handles |-> IF h = store THEN Nothing ELSE opened[h]]
      /\ store' = draft[c] /\ draft' = [draft EXCEPT ![c] = Nothing]
      /\ UNCHANGED <<op, cancel, closed, state, events, req, done, writeVars>>
  BY DEF Switch, Running
<1> DEFINE name == req[c].name
<1>2. /\ work[c] \in SnapshotType /\ req[c] \in RequestType
      /\ name \in Names /\ req[c].type \in {"connect", "setup"}
      /\ draft[c] \in Handles /\ draft[c] # store /\ opened[draft[c]] = name
      /\ ~closed /\ ~failed[c] /\ grant[c] = Nothing
      /\ \A d \in Callers : d # c => draft[d] = Nothing /\ pc[d] \notin Running
  BY <1>1, AtConnectTables
<1>3. \E s \in SnapshotType : \E p \in {"load", "finish"} :
        /\ s.connection = name /\ s.pending = Nothing
        /\ p = "load" => s.browse.table # Nothing
        /\ pc' = [pc EXCEPT ![c] = p] /\ work' = [work EXCEPT ![c] = s]
        /\ failed' = [failed EXCEPT ![c] = FALSE]
        /\ profiles' \in Seq(Names)
  <2>1. PICK tables \in SUBSET Tables :
          LET s == work[c]
              view == Restored(Saved(s)[name], tables)
          IN IF tables = {}
             THEN /\ Return(c, WithProfile(req[c], Connected(s, name, tables, view)))
                  /\ Installed(req[c])
             ELSE /\ \E first \in tables :
                        Goto(c, "load",
                             Connected(s, name, tables,
                                       [view EXCEPT !.table = IF @ = Nothing THEN first
                                                              ELSE @]))
                  /\ UNCHANGED profiles
    BY DEF Switch
  <2> DEFINE view == Restored(Saved(work[c])[name], tables)
  <2>2. view \in BrowseType BY <1>1, <1>2, SavedTyped, RestoredTyped
  <2>3. profiles \in Seq(Names) /\ failed \in [Callers -> BOOLEAN] BY DEF TypeOK
  <2>4. CASE tables = {}
    <3> DEFINE s == WithProfile(req[c], Connected(work[c], name, tables, view))
    <3>1. s \in SnapshotType /\ s.connection = name /\ s.pending = Nothing
      BY <1>2, <2>2, ConnectedTyped, WithProfileTyped
    <3>2. Return(c, s) /\ Installed(req[c]) BY <2>1, <2>4
    <3>3. profiles' \in Seq(Names) BY <1>2, <2>3, <3>2, InstalledTyped
    <3> HIDE DEF s
    <3> QED BY <3>1, <3>2, <3>3 DEF Return
  <2>5. CASE tables # {}
    <3>1. PICK first \in tables :
            Goto(c, "load",
                 Connected(work[c], name, tables,
                           [view EXCEPT !.table = IF @ = Nothing THEN first ELSE @]))
      BY <2>1, <2>5
    <3>2. UNCHANGED profiles BY <2>1, <2>5
    <3> HIDE DEF view
    <3> DEFINE b == [view EXCEPT !.table = IF @ = Nothing THEN first ELSE @]
               s == Connected(work[c], name, tables, b)
    <3>3. b \in BrowseType /\ b.table # Nothing
      BY <2>2, NullAssumption DEF BrowseType
    <3>4. Goto(c, "load", s) BY <3>1
    <3> HIDE DEF b
    <3>5. /\ s \in SnapshotType /\ s.connection = name /\ s.pending = Nothing
          /\ s.browse.table # Nothing
      BY <1>2, <3>3, ConnectedTyped
    <3>6. failed' = [failed EXCEPT ![c] = FALSE]
      BY <1>2, <2>3, <3>4 DEF Goto
    <3> HIDE DEF s
    <3> QED BY <2>3, <3>2, <3>4, <3>5, <3>6 DEF Goto
  <2> QED BY <2>4, <2>5
<1>4. PICK s \in SnapshotType, p \in {"load", "finish"} :
        /\ s.connection = name /\ s.pending = Nothing
        /\ p = "load" => s.browse.table # Nothing
        /\ pc' = [pc EXCEPT ![c] = p] /\ work' = [work EXCEPT ![c] = s]
        /\ failed' = [failed EXCEPT ![c] = FALSE]
        /\ profiles' \in Seq(Names)
  BY <1>3
<1> HIDE DEF name
<1>5. store' # Nothing /\ opened'[store'] = name
  BY <1>1, <1>2, NullAssumption
<1>6. TypeOK'
  <2>1. views' \in [Names -> BrowseType \cup {Nothing}] BY <1>1, SavedTyped
  <2> QED BY <1>1, <1>2, <1>4, <2>1 DEF TypeOK, Points, Running
<1>7. OneOperation' BY <1>1, <1>4 DEF TypeOK, OneOperation, Running, Holding
<1>8. CallsOK'
  BY <1>1, <1>2, <1>4, <1>5, NullAssumption
     DEF TypeOK, CallsOK, CallOK, Running, StorePoints, Connecting, Testing, name
<1>9. PoolsOK'
  BY <1>1, <1>2, <1>4, <1>5, NullAssumption DEF TypeOK, PoolsOK, Running
<1>10. ConnectionOK'
  BY <1>1, <1>2, <1>4, <1>5 DEF TypeOK, ConnectionOK, Agrees, Switched, Running
<1>11. WritesOK'
  BY <1>1, <1>2, <1>4
     DEF TypeOK, WritesOK, Open, InFlight, WritesAsApproved, Running, CallsOK, CallOK
<1> QED BY <1>6, <1>7, <1>8, <1>9, <1>10, <1>11

-----------------------------------------------------------------------------
(* AppInvariant is an inductive invariant of App *)

LEMMA InitOK ==
  ASSUME Init PROVE AppInvariant
<1> USE DEF Init
<1>1. EmptyBrowse \in BrowseType
  BY PageAssumption DEF EmptyBrowse, FirstPage, BrowseType
<1>2. state \in SnapshotType BY <1>1, OptionsAssumption DEF SnapshotType
<1>3. TypeOK
  <2>1. events \in SnapshotType \cup {Nothing} BY <1>2
  <2>2. executed \in [WriteIds -> Seq(WriteType)]
    <3>1. <<>> \in Seq(WriteType) OBVIOUS
    <3> QED BY <3>1
  <2>3. profiles \in Seq(Names) BY OptionsAssumption
  <2> QED BY <1>2, <2>1, <2>2, <2>3 DEF TypeOK, Points
<1>4. OneOperation BY NullAssumption DEF OneOperation, Running, Holding
<1>5. CallsOK BY DEF CallsOK, CallOK, Running, StorePoints
<1>6. PoolsOK BY DEF PoolsOK
<1>7. ConnectionOK BY DEF ConnectionOK, Agrees, Running
<1>8. WritesOK BY DEF WritesOK, WritesAsApproved, Running
<1> QED BY <1>3, <1>4, <1>5, <1>6, <1>7, <1>8 DEF AppInvariant

LEMMA StepOK ==
  ASSUME AppInvariant, NEW c \in Callers, Step(c) PROVE AppInvariant'
<1>1. CASE Call(c) BY <1>1, TryLockStep, CloseCancelStep DEF Call
<1>2. CASE Internal(c)
  BY <1>2, UnlockStep, BeginStep, AddProfileStep, RejectStep, RefuseStep, BrowseActionStep,
     StartConnectStep, StartRefreshStep, StartQueryStep, StageWriteStep, SetupCheckStep,
     ApproveRefusedStep, ApproveCheckedStep, ConsumeStep, FinishStep
     DEF Internal
<1>3. CASE Succeeds(c)
  BY <1>3, OpenStoreStep, SwitchStep, LoadStep, RelistStep, QueryStep, SentStep
     DEF Succeeds
<1>4. CASE Fails(c)
  BY <1>4, FailsStep, ConnectTablesFailStep, ConnectLoadFailsStep, RefreshLoadFailsStep,
     ApproveLoadFailsStep, SentStep, ApproveTablesFailStep
     DEF Fails
<1>5. CASE Timeout(c) \/ CloseLocked(c) BY <1>5, TimeoutStep, CloseLockedStep
<1> QED BY <1>1, <1>2, <1>3, <1>4, <1>5 DEF Step

LEMMA NextOK ==
  ASSUME AppInvariant, [Next]_vars PROVE AppInvariant'
<1>1. CASE \E c \in Callers : Step(c) BY <1>1, StepOK
<1>2. CASE Cancel \/ Lapse \/ Receive BY <1>2, TimeoutStep, LapseStep, ReceiveStep
<1>3. CASE UNCHANGED vars
  <2> USE <1>3 DEF AppInvariant, vars, coreVars, callVars, writeVars
  <2>1. TypeOK' BY DEF TypeOK
  <2>2. OneOperation' BY DEF OneOperation
  <2>3. CallsOK' BY DEF CallsOK, CallOK
  <2>4. PoolsOK' BY DEF PoolsOK
  <2>5. ConnectionOK' BY DEF ConnectionOK, Agrees, Switched
  <2>6. WritesOK' BY DEF WritesOK, Open, InFlight, WritesAsApproved
  <2> QED BY <2>1, <2>2, <2>3, <2>4, <2>5, <2>6
<1> QED BY <1>1, <1>2, <1>3 DEF Next

(***************************************************************************)
(* AppInvariant holds in every reachable state.                            *)
(***************************************************************************)
THEOREM Invariance == Spec => []AppInvariant
BY InitOK, NextOK, PTL DEF Spec

(***************************************************************************)
(* Every field of the App and every local of its calls keeps its type: in  *)
(* particular the page size stays between 1 and MaxPage and the offset     *)
(* within the int range (perform's checks of size and of the next page).   *)
(***************************************************************************)
THEOREM TypeCorrect == Spec => []TypeOK
<1>1. AppInvariant => TypeOK BY DEF AppInvariant
<1> QED BY <1>1, Invariance, PTL

(***************************************************************************)
(* At most one operation runs, Busy is shown exactly while one does, and   *)
(* App.cancel belongs to it (TryLock, begin, finish and Close).            *)
(***************************************************************************)
THEOREM Exclusion == Spec => []OneOperation
<1>1. AppInvariant => OneOperation BY DEF AppInvariant
<1> QED BY <1>1, Invariance, PTL

(***************************************************************************)
(* A staged write is executed at most once, unaltered, on the connection   *)
(* it was staged for, and never once it was rejected (Approve, Reject).    *)
(***************************************************************************)
THEOREM ApprovedWritesOnly == Spec => []WritesAsApproved
<1>1. AppInvariant => WritesAsApproved BY DEF AppInvariant, WritesOK
<1> QED BY <1>1, Invariance, PTL

-----------------------------------------------------------------------------
(***************************************************************************)
(* App implements WriteApproval.  Where a write is kept (in the state, a   *)
(* working copy or a grant) decides its status; every step of App moves at *)
(* most one write on, as WriteApproval allows, or leaves all as they are.  *)
(***************************************************************************)

(* What an operation may rely on, whatever its point. *)
LEMMA Alone ==
  ASSUME AppInvariant, NEW c \in Callers, pc[c] \in Running
  PROVE  /\ \A d \in Callers : d # c => pc[d] \notin Running
         /\ ~closed /\ work[c] \in SnapshotType /\ req[c] \in RequestType /\ CallOK(c)
         /\ pc \in [Callers -> Points] /\ failed \in [Callers -> BOOLEAN]
         /\ work \in [Callers -> SnapshotType \cup {Nothing}]
         /\ profiles \in Seq(Names)
         /\ ~Switched(c) => Agrees(state)
         /\ Agrees(work[c])
<1>1. work[c] \in SnapshotType /\ req[c] \in RequestType
  BY CallTyped DEF Running, Holding
<1>2. CallOK(c) BY DEF AppInvariant, CallsOK
<1> QED
  BY <1>1, <1>2
  DEF AppInvariant, OneOperation, PoolsOK, TypeOK, Running, ConnectionOK, Switched

-----------------------------------------------------------------------------
(* The places of a write *)

Held(i) == \E c \in Callers : grant[c] # Nothing /\ grant[c].id = i

Checked(i) == \E c \in Callers : pc[c] = "approve" /\ req[c].id = i

Offered(i) == state.pending # Nothing /\ state.pending.id = i

Copied(i) == \E c \in Callers : /\ work[c] # Nothing /\ work[c].pending # Nothing
                                /\ work[c].pending.id = i

StatusKept == \A i \in WriteIds : WriteStatus(i)' = WriteStatus(i)

(* A write that stays where it is keeps its status. *)
LEMMA StatusSame ==
  ASSUME NEW i \in WriteIds, staged'[i] = staged[i], executed'[i] = executed[i],
         Held(i)' <=> Held(i), Checked(i)' <=> Checked(i), Offered(i)' <=> Offered(i),
         Offered(i) \/ (Copied(i)' <=> Copied(i))
  PROVE  WriteStatus(i)' = WriteStatus(i)
BY DEF WriteStatus, Held, Checked, Offered, Copied

(* What is kept anywhere was staged and not sent, and is kept for one purpose. *)
LEMMA OnePlaceEach ==
  ASSUME AppInvariant, CopiesFit, NEW i \in WriteIds
  PROVE  /\ Offered(i) \/ Copied(i) \/ Held(i) => staged[i] # Nothing /\ executed[i] = <<>>
         /\ Offered(i) \/ Copied(i) => ~Held(i)
         /\ Checked(i) => Offered(i)
<1>1. \A d \in Callers : work[d] # Nothing => pc[d] \in Running
  BY DEF AppInvariant, CallsOK, CallOK
<1>2. \A p \in WriteType : p # Nothing BY NullAssumption
<1>3. /\ state.pending \in WriteType \cup {Nothing}
      /\ \A d \in Callers : pc[d] \in Running => work[d].pending \in WriteType \cup {Nothing}
      /\ \A d \in Callers : grant[d] \in WriteType \cup {Nothing}
  BY DEF AppInvariant, TypeOK, CallsOK, CallOK, SnapshotType
<1>4. ASSUME NEW p \in WriteType, Open(p), p.id = i
      PROVE  staged[i] # Nothing /\ executed[i] = <<>> /\ ~Held(i)
  BY <1>2, <1>4 DEF Open, Held
<1>5. Offered(i) => \E p \in WriteType : Open(p) /\ p.id = i
  BY <1>3 DEF Offered, AppInvariant, WritesOK
<1>6. Copied(i) => \E p \in WriteType : Open(p) /\ p.id = i
  BY <1>1, <1>3 DEF Copied, AppInvariant, WritesOK
<1>7. Held(i) => staged[i] # Nothing /\ executed[i] = <<>>
  BY <1>2, <1>3 DEF Held, AppInvariant, WritesOK, InFlight
<1>8. Checked(i) => Offered(i)
  BY DEF Checked, Offered, AppInvariant, CallsOK, CallOK, CopiesFit, CopyFits, Drafting,
         Switched, Running
<1> QED BY <1>4, <1>5, <1>6, <1>7, <1>8

(* The status of a write by its place. *)
LEMMA StatusByPlace ==
  ASSUME AppInvariant, CopiesFit, NEW i \in WriteIds
  PROVE  /\ WriteStatus(i) = "unused" <=> staged[i] = Nothing
         /\ WriteStatus(i) = "granted" <=> Held(i)
         /\ WriteStatus(i) = "accepted" <=> Checked(i)
         /\ WriteStatus(i) = "posted" <=> Offered(i) /\ ~Checked(i)
         /\ WriteStatus(i) = "drafted" <=> Copied(i) /\ ~Offered(i)
<1> DEFINE unused == staged[i] = Nothing
           sent == executed[i] # <<>>
<1>1. WriteStatus(i) = IF unused THEN "unused" ELSE IF sent THEN "sent"
                       ELSE IF Held(i) THEN "granted" ELSE IF Checked(i) THEN "accepted"
                       ELSE IF Offered(i) THEN "posted" ELSE IF Copied(i) THEN "drafted"
                       ELSE "dropped"
  BY DEF WriteStatus, Held, Checked, Offered, Copied
<1>2. /\ Offered(i) \/ Copied(i) \/ Held(i) => ~unused /\ ~sent
      /\ Offered(i) \/ Copied(i) => ~Held(i)
      /\ Checked(i) => Offered(i)
  BY OnePlaceEach
<1> HIDE DEF unused, sent
<1> QED BY <1>1, <1>2 DEF unused

-----------------------------------------------------------------------------
(* Steps of WriteApproval *)

LEMMA MovesTo ==
  ASSUME NEW i \in WriteIds, NEW from, NEW to,
         WriteStatus(i) = from, WriteStatus(i)' = to,
         \A j \in WriteIds : j # i => WriteStatus(j)' = WriteStatus(j)
  PROVE  Approval!Move(i, from, to)
BY DEF Approval!Move

LEMMA NothingMoves ==
  ASSUME StatusKept, UNCHANGED <<executed, lapsed>>
  PROVE  UNCHANGED Approval!wvars
BY DEF StatusKept, Approval!wvars

(* What every step of App does to the writes. *)
Follows == CopiesFit' /\ (Approval!Next \/ UNCHANGED Approval!wvars)

(* What a step does that leaves every write where it is. *)
LeavesWrites == CopiesFit' /\ StatusKept

LEMMA LeavesFollows ==
  ASSUME LeavesWrites, UNCHANGED <<executed, lapsed>> PROVE Follows
BY NothingMoves DEF LeavesWrites, Follows

-----------------------------------------------------------------------------
(* Steps that leave every write where it is *)

(* No operation begins, goes on or ends. *)
LEMMA Beside ==
  ASSUME AppInvariant, CopiesFit, state'.pending = state.pending,
         UNCHANGED <<work, failed, grant, staged, executed>>,
         \A c \in Callers : \/ pc'[c] = pc[c] /\ req'[c] = req[c]
                            \/ pc[c] \notin Running /\ pc'[c] \notin Running
  PROVE  LeavesWrites
<1>1. \A c \in Callers : /\ pc'[c] = "approve" <=> pc[c] = "approve"
                         /\ pc[c] = "approve" => req'[c] = req[c]
  BY DEF Running
<1>2. CopiesFit' BY DEF CopiesFit, CopyFits, Drafting, Switched
<1>3. ASSUME NEW i \in WriteIds PROVE WriteStatus(i)' = WriteStatus(i)
  <2>1. Checked(i)' <=> Checked(i) BY <1>1 DEF Checked
  <2>2. (Offered(i)' <=> Offered(i)) /\ (Copied(i)' <=> Copied(i)) /\ (Held(i)' <=> Held(i))
    BY DEF Offered, Copied, Held
  <2> QED BY <2>1, <2>2, StatusSame
<1> QED BY <1>2, <1>3 DEF LeavesWrites, StatusKept

LEMMA BesideStep ==
  ASSUME AppInvariant, CopiesFit, NEW c \in Callers,
         \/ \E r \in Requests : TryLock(c, r) \/ CloseCancel(c, r)
         \/ BeginClosed(c) \/ Unlock(c) \/ Timeout(c) \/ Cancel \/ Receive \/ CloseLocked(c)
  PROVE  Follows
<1> USE DEF AppInvariant, TypeOK, Running, coreVars, callVars, writeVars
<1>1. CASE \E r \in Requests : TryLock(c, r)
  BY <1>1, Beside, LeavesFollows DEF TryLock
<1>2. CASE \E r \in Requests : CloseCancel(c, r)
  BY <1>2, Beside, LeavesFollows DEF CloseCancel
<1>3. CASE BeginClosed(c) \/ Unlock(c)
  BY <1>3, Beside, LeavesFollows DEF BeginClosed, Unlock
<1>4. CASE Timeout(c) \/ Cancel BY <1>4, Beside, LeavesFollows DEF Timeout, Cancel
<1>5. CASE Receive BY <1>5, Beside, LeavesFollows DEF Receive
<1>6. CASE CloseLocked(c) BY <1>6, Beside, LeavesFollows DEF CloseLocked
<1> QED BY <1>1, <1>2, <1>3, <1>4, <1>5, <1>6

LEMMA AddProfileFollows ==
  ASSUME AppInvariant, CopiesFit, NEW c \in Callers, AddProfile(c) PROVE Follows
<1>1. state'.pending = state.pending
  BY DEF AddProfile, Publish, AppInvariant, TypeOK, SnapshotType
<1> QED
  BY <1>1, Beside, LeavesFollows
  DEF AddProfile, AppInvariant, TypeOK, Running, writeVars

(* An operation goes on, with the pending write it has. *)
Continues(c, p, s, b) ==
    /\ pc' = [pc EXCEPT ![c] = p]
    /\ work' = [work EXCEPT ![c] = s]
    /\ failed' = [failed EXCEPT ![c] = b]
    /\ s.pending = work[c].pending
    /\ UNCHANGED <<state, req, writeVars>>

LEMMA Continued ==
  ASSUME AppInvariant, CopiesFit, NEW c \in Callers,
         pc[c] \in Running \ {"finish", "approve"}, NEW p \in Running \ {"approve"},
         NEW s \in SnapshotType, NEW b \in BOOLEAN, Continues(c, p, s, b),
         Switched(c)' <=> Switched(c), ~Drafting(c)', req[c].type = "write" => p = "finish"
  PROVE  Follows
<1> USE Alone DEF Continues, writeVars
<1>1. \A d \in Callers : d # c => pc[d] \notin Running /\ pc'[d] = pc[d] /\ work'[d] = work[d]
  OBVIOUS
<1>2. pc'[c] = p /\ work'[c] = s /\ ~Drafting(c) BY DEF Drafting
<1>3. CopyFits(c)' BY <1>2 DEF CopiesFit, CopyFits, Running
<1>4. CopiesFit' BY <1>1, <1>3 DEF CopiesFit, CopyFits
<1>5. ASSUME NEW i \in WriteIds PROVE WriteStatus(i)' = WriteStatus(i)
  <2>1. Checked(i)' <=> Checked(i) BY <1>1, <1>2 DEF Checked, Running
  <2>2. work[c] # Nothing /\ s # Nothing BY NullAssumption
  <2>3. Copied(i)' <=> Copied(i) BY <1>1, <1>2, <2>2 DEF Copied
  <2>4. (Offered(i)' <=> Offered(i)) /\ (Held(i)' <=> Held(i)) BY DEF Offered, Held
  <2> QED BY <2>1, <2>3, <2>4, StatusSame
<1> QED BY <1>4, <1>5, LeavesFollows DEF LeavesWrites, StatusKept

(* The ways it goes on: an error, a result, a call of the store. *)
LEMMA FailFollows ==
  ASSUME AppInvariant, CopiesFit, NEW c \in Callers,
         pc[c] \in Running \ {"finish", "approve"}, ~Switched(c), Fail(c),
         UNCHANGED <<state, req, writeVars>>
  PROVE  Follows
<1> USE Alone
<1>1. Continues(c, "finish", work[c], TRUE) BY DEF Continues, Fail
<1>2. ~Switched(c)' /\ ~Drafting(c)' BY <1>1 DEF Continues, Switched, Drafting
<1> QED BY <1>1, <1>2, Continued DEF Running

LEMMA ReturnFollows ==
  ASSUME AppInvariant, CopiesFit, NEW c \in Callers,
         pc[c] \in Running \ {"finish", "approve"}, req[c].type # "write",
         req[c].type \in {"connect", "setup"} => pc[c] = "load",
         NEW s \in SnapshotType, s.pending = work[c].pending, Return(c, s),
         UNCHANGED <<state, req, writeVars>>
  PROVE  Follows
<1> USE Alone
<1>1. Continues(c, "finish", s, FALSE) BY DEF Continues, Return
<1>2. ~Drafting(c)' BY <1>1 DEF Continues, Drafting
<1>3. Switched(c)' <=> Switched(c) BY <1>1 DEF Continues, Switched, CallOK
<1> QED BY <1>1, <1>2, <1>3, Continued DEF Running

LEMMA GotoFollows ==
  ASSUME AppInvariant, CopiesFit, NEW c \in Callers,
         pc[c] \in Running \ {"finish", "approve"}, req[c].type # "write", ~Switched(c),
         NEW p \in Running \ {"finish", "approve"},
         p = "load" => req[c].type \notin {"connect", "setup"},
         NEW s \in SnapshotType, s.pending = work[c].pending, Goto(c, p, s),
         UNCHANGED <<state, req, writeVars>>
  PROVE  Follows
<1> USE Alone
<1>1. Continues(c, p, s, failed[c]) BY DEF Continues, Goto
<1>2. ~Drafting(c)' /\ ~Switched(c)' BY <1>1 DEF Continues, Drafting, Switched
<1> QED BY <1>1, <1>2, Continued

LEMMA FailureFollows ==
  ASSUME AppInvariant, CopiesFit, NEW c \in Callers,
         \/ Refuse(c) \/ ApproveRefused(c) \/ OpenFails(c) \/ LoadFails(c)
         \/ RefreshTablesFail(c) \/ QueryFails(c) \/ ConnectTablesFail(c)
  PROVE  Follows
<1>1. /\ pc[c] \in {"perform", "open", "load", "refresh-tables", "query", "connect-tables"}
      /\ Fail(c) /\ UNCHANGED <<state, req, writeVars>>
      /\ pc[c] = "load" => req[c].type \in BrowseActions
  BY DEF Refuse, ApproveRefused, OpenFails, LoadFails, RefreshTablesFail, QueryFails,
         ConnectTablesFail, coreVars
<1> QED BY <1>1, FailFollows DEF Switched, Running, BrowseActions

LEMMA OnwardFollows ==
  ASSUME AppInvariant, CopiesFit, NEW c \in Callers,
         StartConnect(c) \/ StartRefresh(c) \/ StartQuery(c)
  PROVE  Follows
<1>1. /\ pc[c] = "perform" /\ UNCHANGED <<state, req, writeVars>>
      /\ req[c].type \in {"connect", "test", "refresh", "query"}
      /\ \E p \in {"open", "refresh-tables", "query"} : Goto(c, p, work[c])
  BY DEF StartConnect, StartRefresh, StartQuery, Accepted, coreVars
<1> QED BY <1>1, Alone, GotoFollows DEF Running, Switched

LEMMA SetupCheckFollows ==
  ASSUME AppInvariant, CopiesFit, NEW c \in Callers, SetupCheck(c) PROVE Follows
<1>1. /\ pc[c] = "perform" /\ UNCHANGED <<state, req, writeVars>>
      /\ req[c].type \in {"setup", "setup-test"}
      /\ Goto(c, "open", work[c]) \/ Fail(c)
  BY DEF SetupCheck, coreVars
<1> QED BY <1>1, Alone, GotoFollows, FailFollows DEF Running, Switched

LEMMA BrowseActionFollows ==
  ASSUME AppInvariant, CopiesFit, NEW c \in Callers, BrowseAction(c) PROVE Follows
<1> DEFINE r == req[c]
           w == work[c]
<1>1. /\ pc[c] = "perform" /\ UNCHANGED <<state, req, writeVars>>
      /\ r.type \in BrowseActions /\ ~Refusable(w, r)
  BY DEF BrowseAction, Accepted, coreVars
<1>2. w \in SnapshotType /\ r \in RequestType BY <1>1, Alone DEF Running
<1>3. CASE AtLastPage(w, r)
  <2>1. Return(c, w) BY <1>3 DEF BrowseAction
  <2> QED BY <1>1, <1>2, <2>1, ReturnFollows DEF Running, BrowseActions
<1>4. CASE ~AtLastPage(w, r)
  <2> DEFINE b == Requested(w, r)
             s == [w EXCEPT !.browse = b]
  <2>1. b \in BrowseType BY <1>1, <1>2, <1>4, RequestedTyped
  <2>2. s \in SnapshotType /\ s.pending = w.pending BY <1>2, <2>1, WithBrowse
  <2>3. Goto(c, "load", s) BY <1>4 DEF BrowseAction
  <2> HIDE DEF s
  <2> QED BY <1>1, <2>2, <2>3, GotoFollows DEF Running, BrowseActions, Switched
<1> QED BY <1>3, <1>4

(* A call of the store is never part of staging a write. *)
LEMMA NotStaging ==
  ASSUME CopiesFit, NEW c \in Callers, pc[c] \in Running \ {"perform", "finish"}
  PROVE  req[c].type # "write"
BY DEF CopiesFit, CopyFits

LEMMA OpenStoreFollows ==
  ASSUME AppInvariant, CopiesFit, NEW c \in Callers, OpenStore(c) PROVE Follows
<1>1. /\ pc[c] = "open" /\ UNCHANGED <<state, req, writeVars>>
      /\ IF Testing(req[c]) THEN Return(c, work[c]) ELSE Goto(c, "connect-tables", work[c])
  BY DEF OpenStore
<1>2. req[c].type # "write" BY <1>1, NotStaging DEF Running
<1>3. CASE Testing(req[c]) BY <1>1, <1>2, <1>3, Alone, ReturnFollows DEF Running, Testing
<1>4. CASE ~Testing(req[c]) BY <1>1, <1>2, <1>4, Alone, GotoFollows DEF Running, Switched
<1> QED BY <1>3, <1>4

LEMMA LoadFollows ==
  ASSUME AppInvariant, CopiesFit, NEW c \in Callers, Load(c) \/ ConnectLoadFails(c)
  PROVE  Follows
<1>1. pc[c] = "load" /\ UNCHANGED <<state, req, writeVars>>
  BY DEF Load, ConnectLoadFails
<1>2. /\ req[c] \in RequestType /\ work[c] \in SnapshotType
      /\ store # Nothing /\ work[c].browse.table # Nothing
      /\ req[c].type = "setup" => req[c].name \in Names
  BY <1>1, AtLoad
<1>3. \E s \in SnapshotType : s.pending = work[c].pending /\ Return(c, s)
  <2>1. CASE Load(c)
    <3>1. PICK more \in BOOLEAN : Return(c, WithProfile(req[c], Loaded(work[c], more)))
      BY <2>1 DEF Load
    <3> DEFINE l == Loaded(work[c], more)
               s == WithProfile(req[c], l)
    <3>2. l \in SnapshotType /\ l.pending = work[c].pending
      BY <1>1, <1>2, LoadedTyped DEF Running
    <3>3. Return(c, s) BY <3>1
    <3> HIDE DEF l
    <3>4. s \in SnapshotType /\ s.pending = work[c].pending
      BY <1>2, <3>2, WithProfileTyped
    <3> HIDE DEF s
    <3> QED BY <3>3, <3>4
  <2>2. CASE ConnectLoadFails(c) BY <1>2, <2>2, WithProfileTyped DEF ConnectLoadFails
  <2> QED BY <2>1, <2>2
<1>4. req[c].type # "write" BY <1>1, NotStaging DEF Running
<1> QED BY <1>1, <1>3, <1>4, ReturnFollows DEF Running

LEMMA ReloadFailsFollows ==
  ASSUME AppInvariant, CopiesFit, NEW c \in Callers,
         RefreshLoadFails(c) \/ ApproveLoadFails(c) \/ ApproveTablesFail(c)
  PROVE  Follows
<1> DEFINE gone == [work[c] EXCEPT !.result = Nothing, !.query = FALSE]
<1>1. /\ pc[c] \in {"load", "approve-tables"} /\ UNCHANGED <<state, req, writeVars>>
      /\ pc[c] # "load" => pc[c] = "approve-tables"
      /\ Return(c, gone) \/ Return(c, Unshown(work[c]))
  BY DEF RefreshLoadFails, ApproveLoadFails, ApproveTablesFail, coreVars
<1>2. pc[c] \in Running /\ work[c] \in SnapshotType BY <1>1, Alone DEF Running
<1>3. gone \in SnapshotType /\ gone.pending = work[c].pending
  BY <1>2, UnshownTyped DEF SnapshotType
<1>4. Unshown(work[c]) \in SnapshotType /\ Unshown(work[c]).pending = work[c].pending
  BY <1>2, UnshownTyped
<1>5. req[c].type # "write" BY <1>1, NotStaging DEF Running
<1>6. pc[c] = "approve-tables" => ~Connecting(req[c])
  BY <1>2, Alone DEF CallOK, StorePoints
<1> HIDE DEF gone
<1> QED BY <1>1, <1>2, <1>3, <1>4, <1>5, <1>6, ReturnFollows DEF Running, Connecting

LEMMA RelistFollows ==
  ASSUME AppInvariant, CopiesFit, NEW c \in Callers, RefreshTables(c) \/ ApproveTables(c)
  PROVE  Follows
<1>1. PICK p \in {"refresh-tables", "approve-tables"} : Relist(c, p)
  BY DEF RefreshTables, ApproveTables
<1>2. pc[c] \in {"refresh-tables", "approve-tables"} /\ UNCHANGED <<state, req, writeVars>>
  BY <1>1 DEF Relist, coreVars
<1>3. PICK tables \in SUBSET Tables :
        LET s == [work[c] EXCEPT !.tables = tables]
        IN IF s.browse.table \in tables THEN Goto(c, "load", s) ELSE Return(c, Emptied(s))
  BY <1>1 DEF Relist
<1> DEFINE s == [work[c] EXCEPT !.tables = tables]
<1>4. /\ pc[c] \in Running /\ work[c] \in SnapshotType
      /\ req[c].type # "write" /\ ~Connecting(req[c])
  BY <1>2, Alone, NotStaging DEF Running, CallOK, StorePoints
<1>5. s \in SnapshotType /\ s.pending = work[c].pending BY <1>4 DEF SnapshotType
<1>6. Goto(c, "load", s) \/ Return(c, Emptied(s)) BY <1>3
<1> HIDE DEF s
<1>7. CASE Goto(c, "load", s)
  BY <1>2, <1>4, <1>5, <1>7, GotoFollows DEF Running, Connecting, Switched
<1>8. CASE Return(c, Emptied(s))
  BY <1>2, <1>4, <1>5, <1>8, EmptiedTyped, ReturnFollows DEF Running, Connecting
<1> QED BY <1>6, <1>7, <1>8

LEMMA QueryFollows ==
  ASSUME AppInvariant, CopiesFit, NEW c \in Callers, Query(c) PROVE Follows
<1>1. pc[c] = "query" /\ UNCHANGED <<state, req, writeVars>> BY DEF Query, coreVars
<1>2. PICK more \in BOOLEAN :
        Return(c, [work[c] EXCEPT !.result = Rows(req[c].sql, more), !.query = TRUE])
  BY DEF Query
<1> DEFINE rows == Rows(req[c].sql, more)
           s == [work[c] EXCEPT !.result = rows, !.query = TRUE]
<1>3. /\ pc[c] \in Running /\ work[c] \in SnapshotType /\ req[c] \in RequestType
      /\ store # Nothing /\ req[c].sql # Nothing
      /\ req[c].type # "write" /\ ~Connecting(req[c])
  BY <1>1, Alone, NotStaging DEF Running, CallOK, StorePoints
<1>4. rows \in [connection : Names, of : BrowseType \cup SQLs, more : BOOLEAN,
                after : SUBSET WriteIds]
  BY <1>3, RowsTyped DEF RequestType
<1>5. Return(c, s) BY <1>2
<1> HIDE DEF rows
<1>6. s \in SnapshotType /\ s.pending = work[c].pending BY <1>3, <1>4 DEF SnapshotType
<1> HIDE DEF s
<1> QED BY <1>1, <1>3, <1>5, <1>6, ReturnFollows DEF Running, Connecting

-----------------------------------------------------------------------------
(* Steps that move a write, or the place of one *)

LEMMA StatusAfter ==
  ASSUME NEW i \in WriteIds
  PROVE  WriteStatus(i)' = IF staged'[i] = Nothing THEN "unused"
                           ELSE IF executed'[i] # <<>> THEN "sent"
                           ELSE IF Held(i)' THEN "granted"
                           ELSE IF Checked(i)' THEN "accepted"
                           ELSE IF Offered(i)' THEN "posted"
                           ELSE IF Copied(i)' THEN "drafted"
                           ELSE "dropped"
BY DEF WriteStatus, Held, Checked, Offered, Copied

(* While an operation runs, it alone keeps writes outside the state. *)
LEMMA OnlyCopy ==
  ASSUME AppInvariant, NEW c \in Callers, pc[c] \in Running, req' = req,
         \A d \in Callers : d # c =>
             pc'[d] = pc[d] /\ work'[d] = work[d] /\ grant'[d] = grant[d]
  PROVE  \A i \in WriteIds :
           /\ Copied(i) <=> work[c].pending # Nothing /\ work[c].pending.id = i
           /\ Copied(i)' <=> /\ work'[c] # Nothing /\ work'[c].pending # Nothing
                             /\ work'[c].pending.id = i
           /\ Held(i) <=> grant[c] # Nothing /\ grant[c].id = i
           /\ Held(i)' <=> grant'[c] # Nothing /\ grant'[c].id = i
           /\ Checked(i) <=> pc[c] = "approve" /\ req[c].id = i
           /\ Checked(i)' <=> pc'[c] = "approve" /\ req[c].id = i
<1>1. \A d \in Callers : d # c => /\ work[d] = Nothing /\ grant[d] = Nothing
                                  /\ pc[d] # "approve"
  BY Alone DEF AppInvariant, CallsOK, CallOK, Running
<1>2. work[c] # Nothing BY Alone, NullAssumption
<1> QED BY <1>1, <1>2 DEF Copied, Held, Checked

(* Between operations only the state keeps one. *)
LEMMA NoCopy ==
  ASSUME AppInvariant, NEW c \in Callers, pc[c] \in {"locked", "unlock"}
  PROVE  /\ \A d \in Callers : pc[d] \notin Running /\ work[d] = Nothing
         /\ \A i \in WriteIds : ~Copied(i) /\ ~Held(i) /\ ~Checked(i)
<1>1. \A d \in Callers : pc[d] \notin Running
  BY DEF AppInvariant, OneOperation, Holding, Running
<1>2. \A d \in Callers : work[d] = Nothing /\ grant[d] = Nothing
  BY <1>1 DEF AppInvariant, CallsOK, CallOK, Running
<1> QED BY <1>1, <1>2 DEF Copied, Held, Checked, Running

LEMMA BeginFollows ==
  ASSUME AppInvariant, CopiesFit, NEW c \in Callers, Begin(c) PROVE Follows
<1>1. /\ pc[c] = "locked" /\ req[c].type \in Operations
      /\ state' = [state EXCEPT !.busy = TRUE]
      /\ work' = [work EXCEPT ![c] = state'] /\ pc' = [pc EXCEPT ![c] = "perform"]
      /\ failed' = [failed EXCEPT ![c] = FALSE] /\ UNCHANGED <<req, writeVars>>
  BY DEF Begin, Publish
<1>2. state'.pending = state.pending /\ state' # Nothing
  <2>1. state \in SnapshotType BY DEF AppInvariant, TypeOK
  <2>2. state' \in SnapshotType /\ state'.pending = state.pending BY <1>1, <2>1, WithBusy
  <2> QED BY <2>2, NullAssumption
<1>3. /\ \A d \in Callers : pc[d] \notin Running /\ work[d] = Nothing
      /\ \A i \in WriteIds : ~Copied(i) /\ ~Held(i) /\ ~Checked(i)
  BY <1>1, NoCopy
<1>4. pc \in [Callers -> Points] /\ work \in [Callers -> SnapshotType \cup {Nothing}]
  BY DEF AppInvariant, TypeOK
<1>5. CopiesFit'
  BY <1>1, <1>2, <1>3, <1>4 DEF CopiesFit, CopyFits, Drafting, Switched, Running
<1>6. ASSUME NEW i \in WriteIds PROVE WriteStatus(i)' = WriteStatus(i)
  <2>1. (Held(i)' <=> Held(i)) /\ (Offered(i)' <=> Offered(i))
    BY <1>1, <1>2 DEF Held, Offered, writeVars
  <2>2. Checked(i)' <=> Checked(i) BY <1>1, <1>4 DEF Checked
  <2>3. Copied(i)' => Offered(i) BY <1>1, <1>2, <1>3, <1>4 DEF Copied, Offered
  <2> QED BY <1>1, <1>3, <2>1, <2>2, <2>3, StatusSame DEF writeVars
<1> QED BY <1>1, <1>5, <1>6, LeavesFollows DEF LeavesWrites, StatusKept, writeVars

LEMMA SwitchedPending ==
  ASSUME NEW s \in SnapshotType, NEW r, NEW n, NEW tables, NEW b
  PROVE  /\ Connected(s, n, tables, b).pending = Nothing
         /\ WithProfile(r, Connected(s, n, tables, b)).pending = Nothing
BY DEF Connected, WithProfile, SnapshotType

LEMMA SwitchFollows ==
  ASSUME AppInvariant, CopiesFit, NEW c \in Callers, Switch(c) PROVE Follows
<1>1. pc[c] = "connect-tables" /\ UNCHANGED <<state, req, writeVars>>
  BY DEF Switch
<1>2. /\ work[c] \in SnapshotType /\ req[c].type \in {"connect", "setup"} /\ ~failed[c]
      /\ pc[c] \in Running
  BY <1>1, AtConnectTables DEF Running
<1>3. \E s : /\ s.pending = Nothing
             /\ Goto(c, "load", s) \/ Return(c, s)
  <2> DEFINE copy(tables, b) == Connected(work[c], req[c].name, tables, b)
             view(tables) == Restored(Saved(work[c])[req[c].name], tables)
             shown(tables, first) ==
                 [view(tables) EXCEPT !.table = IF @ = Nothing THEN first ELSE @]
  <2>1. \E tables \in SUBSET Tables :
          \/ Return(c, WithProfile(req[c], copy(tables, view(tables))))
          \/ \E first \in tables : Goto(c, "load", copy(tables, shown(tables, first)))
    BY DEF Switch
  <2> HIDE DEF view, shown
  <2>2. \A tables, b : /\ copy(tables, b).pending = Nothing
                       /\ WithProfile(req[c], copy(tables, b)).pending = Nothing
    BY <1>2, SwitchedPending
  <2> HIDE DEF copy
  <2> QED BY <2>1, <2>2
<1>4. PICK s : s.pending = Nothing /\ (Goto(c, "load", s) \/ Return(c, s)) BY <1>3
<1>5. /\ pc'[c] \in {"load", "finish"} /\ ~failed'[c] /\ work'[c].pending = Nothing
      /\ \A d \in Callers : d # c =>
            pc'[d] = pc[d] /\ work'[d] = work[d] /\ pc[d] \notin Running
  BY <1>2, <1>4, Alone DEF Goto, Return
<1>6. CopiesFit'
  BY <1>1, <1>2, <1>5 DEF CopiesFit, CopyFits, Drafting, Switched
<1>7. work[c].pending = state.pending
  BY <1>1, <1>2 DEF CopiesFit, CopyFits, Drafting, Switched
<1>8. ASSUME NEW i \in WriteIds PROVE WriteStatus(i)' = WriteStatus(i)
  <2>1. /\ Copied(i) <=> work[c].pending # Nothing /\ work[c].pending.id = i
        /\ ~Copied(i)' /\ (Held(i)' <=> Held(i)) /\ ~Checked(i) /\ ~Checked(i)'
    BY <1>1, <1>2, <1>5, OnlyCopy DEF writeVars
  <2>2. Copied(i) => Offered(i) BY <1>7, <2>1 DEF Offered
  <2>3. Offered(i)' <=> Offered(i) BY <1>1 DEF Offered
  <2> QED BY <1>1, <2>1, <2>2, <2>3, StatusSame DEF writeVars
<1> QED BY <1>1, <1>6, <1>8, LeavesFollows DEF LeavesWrites, StatusKept, writeVars

-----------------------------------------------------------------------------
(* Steps that move a write *)

LEMMA AddressedTyped ==
  ASSUME AppInvariant, NEW c \in Callers, pc[c] \in Running
  PROVE  /\ work[c].pending \in WriteType \cup {Nothing}
         /\ work[c].pending # Nothing => work[c].pending.id \in WriteIds
         /\ state.pending \in WriteType \cup {Nothing}
         /\ state.pending # Nothing => state.pending.id \in WriteIds
         /\ grant[c] # Nothing => grant[c] \in WriteType /\ grant[c].id \in WriteIds
BY Alone DEF AppInvariant, TypeOK, SnapshotType, WriteType

LEMMA ApproveCheckedFollows ==
  ASSUME AppInvariant, CopiesFit, NEW c \in Callers, ApproveChecked(c) PROVE Follows
<1>1. /\ pc[c] = "perform" /\ pc[c] \in Running /\ Approvable(work[c], req[c].id)
      /\ req[c].type = "approve" /\ Goto(c, "approve", work[c])
      /\ UNCHANGED <<state, req, writeVars>>
  BY DEF ApproveChecked, coreVars, Running
<1>2. /\ pc'[c] = "approve" /\ work'[c] = work[c] /\ work[c] # Nothing
      /\ \A d \in Callers : d # c =>
            pc'[d] = pc[d] /\ work'[d] = work[d] /\ pc[d] \notin Running
      /\ UNCHANGED failed
  BY <1>1, Alone, NullAssumption DEF Goto
<1>3. work[c].pending = state.pending
  BY <1>1 DEF CopiesFit, CopyFits, Drafting, Switched
<1>4. PICK i \in WriteIds : /\ i = req[c].id /\ i \notin lapsed
                            /\ state.pending # Nothing /\ state.pending.id = i
  BY <1>1, <1>3, AddressedTyped DEF Approvable
<1>5. CopiesFit' BY <1>1, <1>2, <1>3 DEF CopiesFit, CopyFits, Drafting, Switched
<1>6. \A j \in WriteIds :
        /\ (Held(j)' <=> Held(j)) /\ ~Checked(j) /\ (Checked(j)' <=> j = i)
        /\ Offered(j)' <=> Offered(j)
        /\ Copied(j)' <=> Copied(j)
  <2>1. \A j \in WriteIds : ~Checked(j) /\ (Checked(j)' <=> j = i) /\ (Held(j)' <=> Held(j))
                             /\ (Copied(j)' <=> Copied(j))
    BY <1>1, <1>2, <1>4, OnlyCopy DEF writeVars
  <2>2. \A j \in WriteIds : Offered(j)' <=> Offered(j) BY <1>1 DEF Offered
  <2> QED BY <2>1, <2>2
<1>7. Offered(i) BY <1>4 DEF Offered
<1>8. WriteStatus(i) = "posted" /\ WriteStatus(i)' = "accepted"
  <2>1. WriteStatus(i) = "posted" BY <1>4, <1>6, <1>7, StatusByPlace
  <2>2. staged[i] # Nothing /\ executed[i] = <<>> /\ ~Held(i) BY <1>4, <1>7, OnePlaceEach
  <2>3. ~Held(i)' /\ Checked(i)' BY <1>4, <1>6, <2>2
  <2>4. staged'[i] # Nothing /\ executed'[i] = <<>> BY <1>1, <2>2 DEF writeVars
  <2>5. WriteStatus(i)' = "accepted" BY <1>4, <2>3, <2>4, StatusAfter
  <2> QED BY <2>1, <2>5
<1>9. \A j \in WriteIds : j # i => WriteStatus(j)' = WriteStatus(j)
  BY <1>1, <1>6, StatusSame DEF writeVars
<1>10. UNCHANGED <<executed, lapsed>> BY <1>1 DEF writeVars
<1>11. Approval!Accept(i)
  BY <1>4, <1>8, <1>9, <1>10, MovesTo DEF Approval!Accept
<1> QED BY <1>4, <1>5, <1>11 DEF Follows, Approval!Next

LEMMA ConsumeFollows ==
  ASSUME AppInvariant, CopiesFit, NEW c \in Callers, Consume(c) PROVE Follows
<1>1. /\ pc[c] = "approve" /\ pc[c] \in Running
      /\ state' = Consumed(state) /\ Goto(c, "execute", Consumed(work[c]))
      /\ grant' = [grant EXCEPT ![c] = work[c].pending]
      /\ UNCHANGED <<req, staged, executed, lapsed>>
  BY DEF Consume, Publish, Running
<1>2. PICK i \in WriteIds :
        /\ work[c].pending = state.pending /\ state.pending # Nothing
        /\ state.pending.id = i /\ i = req[c].id /\ grant[c] = Nothing
        /\ req[c].type # "write"
  BY <1>1, Alone, AddressedTyped
  DEF CopiesFit, CopyFits, Drafting, Switched, CallOK
<1>3. state'.pending = Nothing /\ Consumed(work[c]).pending = Nothing
  BY <1>1, Alone DEF Consumed, AppInvariant, TypeOK, SnapshotType
<1>4. /\ pc'[c] = "execute" /\ work'[c].pending = Nothing
      /\ \A d \in Callers : d # c =>
            pc'[d] = pc[d] /\ work'[d] = work[d] /\ grant'[d] = grant[d] /\ pc[d] \notin Running
      /\ grant'[c] = state.pending
  BY <1>1, <1>2, <1>3, Alone DEF Goto, AppInvariant, TypeOK
<1>5. CopiesFit' BY <1>1, <1>2, <1>3, <1>4 DEF CopiesFit, CopyFits, Drafting, Switched
<1>6. \A j \in WriteIds :
        /\ (Offered(j) <=> j = i) /\ ~Offered(j)' /\ ~Held(j) /\ (Held(j)' <=> j = i)
        /\ (Checked(j) <=> j = i) /\ ~Checked(j)' /\ (Copied(j) <=> j = i) /\ ~Copied(j)'
  <2>1. \A j \in WriteIds : (Offered(j) <=> j = i) /\ ~Offered(j)'
    BY <1>2, <1>3 DEF Offered
  <2>2. \A j \in WriteIds : /\ ~Held(j) /\ (Held(j)' <=> j = i) /\ (Checked(j) <=> j = i)
                            /\ ~Checked(j)' /\ (Copied(j) <=> j = i) /\ ~Copied(j)'
    BY <1>1, <1>2, <1>4, OnlyCopy
  <2> QED BY <2>1, <2>2
<1>7. WriteStatus(i) = "accepted" /\ WriteStatus(i)' = "granted"
  <2>1. WriteStatus(i) = "accepted" BY <1>2, <1>6, StatusByPlace
  <2>2. staged[i] # Nothing /\ executed[i] = <<>> BY <1>2, <1>6, OnePlaceEach
  <2>3. WriteStatus(i)' = "granted" BY <1>1, <1>2, <1>6, <2>2, StatusAfter
  <2> QED BY <2>1, <2>3
<1>8. \A j \in WriteIds : j # i => WriteStatus(j)' = WriteStatus(j)
  BY <1>1, <1>6, StatusSame
<1>9. Approval!Grant(i) BY <1>1, <1>2, <1>7, <1>8, MovesTo DEF Approval!Grant
<1> QED BY <1>2, <1>5, <1>9 DEF Follows, Approval!Next

LEMMA SentFollows ==
  ASSUME AppInvariant, CopiesFit, NEW c \in Callers, Execute(c) \/ ExecuteFails(c)
  PROVE  Follows
<1>1. /\ pc[c] = "execute" /\ pc[c] \in Running /\ Sent(c)
      /\ Goto(c, "approve-tables", work[c]) \/ Fail(c)
  BY DEF Execute, ExecuteFails, Running
<1>2. PICK i \in WriteIds :
        /\ grant[c] # Nothing /\ i = grant[c].id /\ req[c].type # "write"
        /\ staged[i] # Nothing /\ executed[i] = <<>>
        /\ executed \in [WriteIds -> Seq(WriteType)]
        /\ grant \in [Callers -> WriteType \cup {Nothing}]
  <2>1. grant[c] # Nothing /\ grant[c].id \in WriteIds
    BY <1>1, Alone, AddressedTyped DEF CallOK
  <2>2. staged[grant[c].id] = grant[c] /\ executed[grant[c].id] = <<>>
    BY <2>1 DEF AppInvariant, WritesOK, InFlight
  <2> QED BY <1>1, <2>1, <2>2, NotStaging DEF Running, AppInvariant, TypeOK
<1>3. /\ executed' = [executed EXCEPT ![i] = 
                        Append(@, [grant[c] EXCEPT !.connection = opened[store]])]
      /\ grant' = [grant EXCEPT ![c] = Nothing] /\ UNCHANGED <<state, req, staged, lapsed>>
  BY <1>1, <1>2 DEF Sent, coreVars
<1>4. /\ pc'[c] \in {"approve-tables", "finish"} /\ work'[c] = work[c]
      /\ pc'[c] = "finish" => failed'[c]
      /\ \A d \in Callers : d # c =>
            pc'[d] = pc[d] /\ work'[d] = work[d] /\ pc[d] \notin Running
  BY <1>1, Alone DEF Goto, Fail
<1>5. CopiesFit'
  BY <1>1, <1>2, <1>3, <1>4 DEF CopiesFit, CopyFits, Drafting, Switched
<1>6. \A j \in WriteIds :
        /\ (Offered(j)' <=> Offered(j)) /\ (Held(j) <=> j = i) /\ ~Held(j)'
        /\ ~Checked(j) /\ ~Checked(j)' /\ (Copied(j)' <=> Copied(j))
  <2>1. \A j \in WriteIds : Offered(j)' <=> Offered(j) BY <1>3 DEF Offered
  <2>2. grant'[c] = Nothing /\ \A d \in Callers : d # c => grant'[d] = grant[d]
    BY <1>2, <1>3
  <2>3. work[c] # Nothing BY <1>1, Alone, NullAssumption
  <2>4. \A j \in WriteIds : /\ (Held(j) <=> j = i) /\ ~Held(j)'
                            /\ ~Checked(j) /\ ~Checked(j)' /\ (Copied(j)' <=> Copied(j))
    BY <1>1, <1>2, <1>3, <1>4, <2>2, <2>3, OnlyCopy
  <2> QED BY <2>1, <2>4
<1>7. /\ executed'[i] # <<>> /\ Len(executed'[i]) = Len(executed[i]) + 1
      /\ \A j \in WriteIds : j # i => executed'[j] = executed[j]
  BY <1>2, <1>3
<1>8. WriteStatus(i) = "granted" /\ WriteStatus(i)' = "sent"
  <2>1. WriteStatus(i) = "granted" BY <1>2, <1>6, StatusByPlace
  <2>2. WriteStatus(i)' = "sent" BY <1>2, <1>3, <1>7, StatusAfter
  <2> QED BY <2>1, <2>2
<1>9. \A j \in WriteIds : j # i => WriteStatus(j)' = WriteStatus(j)
  BY <1>3, <1>6, <1>7, StatusSame
<1>10. [j \in WriteIds |-> Len(executed[j])]' =
         [[j \in WriteIds |-> Len(executed[j])] EXCEPT ![i] = @ + 1]
  BY <1>2, <1>7
<1>11. Approval!Send(i)
  BY <1>2, <1>3, <1>8, <1>9, <1>10, MovesTo DEF Approval!Send
<1> QED BY <1>2, <1>5, <1>11 DEF Follows, Approval!Next

LEMMA RejectFollows ==
  ASSUME AppInvariant, CopiesFit, NEW c \in Callers, Reject(c) PROVE Follows
<1>1. /\ pc[c] = "locked" /\ pc' = [pc EXCEPT ![c] = "unlock"]
      /\ UNCHANGED <<req, work, failed, grant, staged, lapsed, executed>>
  BY DEF Reject
<1>2. pc \in [Callers -> Points] /\ state \in SnapshotType BY DEF AppInvariant, TypeOK
<1>3. CASE UNCHANGED state
  <2>1. LeavesWrites BY <1>1, <1>2, <1>3, Beside DEF Running
  <2> QED BY <1>1, <2>1, LeavesFollows
<1>4. CASE ~UNCHANGED state
  <2>1. state' = [state EXCEPT !.pending = Nothing] /\ state.pending # Nothing
    BY <1>4 DEF Reject, Publish
  <2>2. state'.pending = Nothing BY <1>2, <2>1 DEF SnapshotType
  <2>3. PICK i \in WriteIds : i = state.pending.id
    BY <1>2, <2>1 DEF SnapshotType, WriteType
  <2>4. /\ \A d \in Callers : pc[d] \notin Running /\ work[d] = Nothing
        /\ \A j \in WriteIds : ~Copied(j) /\ ~Held(j) /\ ~Checked(j)
    BY <1>1, NoCopy
  <2>5. \A j \in WriteIds : /\ Copied(j)' <=> Copied(j)
                            /\ Held(j)' <=> Held(j)
                            /\ Checked(j)' <=> Checked(j)
    BY <1>1, <1>2 DEF Copied, Held, Checked
  <2>6. \A j \in WriteIds : (Offered(j) <=> j = i) /\ ~Offered(j)'
    BY <2>1, <2>2, <2>3 DEF Offered
  <2>7. WriteStatus(i) = "posted" /\ WriteStatus(i)' = "dropped"
    <3>1. WriteStatus(i) = "posted" BY <2>4, <2>6, StatusByPlace
    <3>2. staged[i] # Nothing /\ executed[i] = <<>> BY <2>6, OnePlaceEach
    <3>3. WriteStatus(i)' = "dropped" BY <1>1, <2>4, <2>5, <2>6, <3>2, StatusAfter
    <3> QED BY <3>1, <3>3
  <2>8. \A j \in WriteIds : j # i => WriteStatus(j)' = WriteStatus(j)
    BY <1>1, <2>5, <2>6, StatusSame
  <2>9. Approval!Drop(i) BY <1>1, <2>7, <2>8, MovesTo DEF Approval!Drop
  <2>10. CopiesFit' BY <1>1, <1>2, <2>4 DEF CopiesFit, CopyFits, Running
  <2> QED BY <2>9, <2>10 DEF Follows, Approval!Next
<1> QED BY <1>3, <1>4

LEMMA LapseFollows ==
  ASSUME AppInvariant, CopiesFit, Lapse PROVE Follows
<1>1. PICK i \in WriteIds : staged[i] # Nothing /\ lapsed' = lapsed \cup {i}
  BY DEF Lapse
<1>2. UNCHANGED <<state, pc, req, work, failed, grant, staged, executed>>
  BY DEF Lapse, coreVars, callVars
<1>3. LeavesWrites BY <1>2, Beside
<1>4. WriteStatus(i) # "unused" BY <1>1, StatusByPlace
<1>5. Approval!Lapse(i)
  BY <1>1, <1>2, <1>3, <1>4 DEF LeavesWrites, StatusKept, Approval!Lapse
<1> QED BY <1>3, <1>5 DEF LeavesWrites, Follows, Approval!Next

LEMMA StageWriteFollows ==
  ASSUME AppInvariant, CopiesFit, NEW c \in Callers, StageWrite(c) PROVE Follows
<1>1. /\ pc[c] = "perform" /\ pc[c] \in Running /\ req[c].type = "write"
      /\ ~Refusable(work[c], req[c])
      /\ UNCHANGED <<state, req, grant, lapsed, executed>>
  BY DEF StageWrite, Accepted, coreVars, Running
<1>2. /\ work[c].pending = state.pending /\ ~Awaiting(work[c]) /\ grant[c] = Nothing
      /\ \A d \in Callers : d # c => pc[d] \notin Running
      /\ work[c] \in SnapshotType /\ req[c] \in RequestType /\ ~failed[c]
      /\ pc \in [Callers -> Points] /\ staged \in [WriteIds -> WriteType \cup {Nothing}]
  <2>1. work[c].pending = state.pending
    BY <1>1 DEF CopiesFit, CopyFits, Drafting, Switched
  <2>2. ~Awaiting(work[c]) BY <1>1 DEF Refusable
  <2> QED BY <1>1, <2>1, <2>2, Alone DEF CallOK, AppInvariant, TypeOK
<1>3. PICK i \in WriteIds :
        LET p == [id |-> i, connection |-> work[c].connection, sql |-> req[c].sql]
        IN  /\ staged[i] = Nothing /\ staged' = [staged EXCEPT ![i] = p]
            /\ Return(c, [work[c] EXCEPT !.pending = p])
  BY DEF StageWrite
<1> DEFINE p == [id |-> i, connection |-> work[c].connection, sql |-> req[c].sql]
           s == [work[c] EXCEPT !.pending = p]
<1>4. p \in WriteType /\ p.id = i /\ p # Nothing
  <2>1. store # Nothing /\ req[c].sql # Nothing BY <1>1 DEF Refusable
  <2>2. work[c].connection \in Names /\ req[c].sql \in SQLs
    BY <1>1, <1>2, <2>1, StoreOpen DEF RequestType
  <2>3. p \in WriteType BY <2>2 DEF WriteType
  <2> QED BY <2>3, NullAssumption
<1>5. staged[i] = Nothing /\ staged' = [staged EXCEPT ![i] = p] /\ Return(c, s) BY <1>3
<1> HIDE DEF p
<1>6. s.pending = p /\ s \in SnapshotType BY <1>2, <1>4, WithPending
<1> HIDE DEF s
<1>7. /\ pc'[c] = "finish" /\ ~failed'[c] /\ work'[c] = s /\ s # Nothing
      /\ \A d \in Callers : d # c => pc'[d] = pc[d] /\ work'[d] = work[d]
  BY <1>1, <1>2, <1>5, <1>6, Alone, NullAssumption DEF Return
<1>8. \A j \in WriteIds :
        /\ ~Held(j) /\ ~Held(j)' /\ ~Checked(j) /\ ~Checked(j)'
        /\ Copied(j) => Offered(j)
        /\ Copied(j)' <=> j = i
        /\ Offered(j)' <=> Offered(j)
        /\ Offered(j) => j # i
  <2>1. \A j \in WriteIds :
          /\ Copied(j) <=> work[c].pending # Nothing /\ work[c].pending.id = j
          /\ Copied(j)' <=> s.pending # Nothing /\ s.pending.id = j
          /\ ~Held(j) /\ ~Held(j)' /\ ~Checked(j) /\ ~Checked(j)'
    BY <1>1, <1>2, <1>7, OnlyCopy
  <2>2. \A j \in WriteIds : (Copied(j)' <=> j = i) /\ (Copied(j) => Offered(j))
    BY <1>2, <1>4, <1>6, <2>1 DEF Offered
  <2>3. \A j \in WriteIds : Offered(j)' <=> Offered(j) BY <1>1 DEF Offered
  <2>4. ~Offered(i) BY <1>5, OnePlaceEach
  <2> QED BY <2>1, <2>2, <2>3, <2>4
<1>9. executed[i] = <<>> BY <1>5 DEF AppInvariant, WritesOK
<1>10. staged'[i] # Nothing /\ \A j \in WriteIds : j # i => staged'[j] = staged[j]
  BY <1>2, <1>4, <1>5
<1>11. WriteStatus(i) = "unused" /\ WriteStatus(i)' = "drafted"
  <2>1. WriteStatus(i) = "unused" BY <1>5, StatusByPlace
  <2>2. WriteStatus(i)' = "drafted" BY <1>1, <1>8, <1>9, <1>10, StatusAfter
  <2> QED BY <2>1, <2>2
<1>12. \A j \in WriteIds : j # i => WriteStatus(j)' = WriteStatus(j)
  BY <1>1, <1>8, <1>10, StatusSame
<1>13. \A j \in WriteIds : WriteStatus(j) \notin {"drafted", "accepted", "granted"}
  BY <1>8, StatusByPlace
<1>14. \A j \in WriteIds : WriteStatus(j) = "posted" => j \in lapsed
  <2>1. \A j \in WriteIds : Offered(j) => j \in lapsed
    BY <1>2 DEF Offered, Awaiting
  <2> QED BY <2>1, StatusByPlace
<1>15. Approval!Draft(i)
  BY <1>1, <1>11, <1>12, <1>13, <1>14, MovesTo
  DEF Approval!Draft, Approval!UnderReview, Approval!Nobody
<1>16. CopiesFit'
  <2>1. state.pending # Nothing => state.pending.id \in WriteIds
    BY <1>1, AddressedTyped
  <2>2. state.pending # Nothing => state.pending.id # i
    BY <2>1, <1>8 DEF Offered
  <2>3. CopyFits(c)'
    BY <1>1, <1>4, <1>6, <1>7, <2>2 DEF CopyFits, Drafting
  <2> QED BY <1>2, <1>7, <2>3 DEF CopiesFit, CopyFits
<1> QED BY <1>15, <1>16 DEF Follows, Approval!Next

(* Installing the copy posts the write it staged, drops the one of the connection
   that was left, or leaves them all. *)
LEMMA FinishFollows ==
  ASSUME AppInvariant, CopiesFit, NEW c \in Callers, Finish(c) PROVE Follows
<1>1. /\ pc[c] = "finish" /\ pc[c] \in Running /\ pc' = [pc EXCEPT ![c] = "unlock"]
      /\ state' = [(IF failed[c] THEN state ELSE work[c]) EXCEPT !.busy = FALSE]
      /\ work' = [work EXCEPT ![c] = Nothing]
      /\ UNCHANGED <<req, grant, staged, lapsed, executed>>
  BY DEF Finish, Publish, Running, writeVars
<1>2. /\ state'.pending = IF failed[c] THEN state.pending ELSE work[c].pending
      /\ pc'[c] = "unlock" /\ work'[c] = Nothing
      /\ \A d \in Callers : d # c =>
            pc'[d] = pc[d] /\ work'[d] = work[d] /\ pc[d] \notin Running
  <2>1. state \in SnapshotType /\ work[c] \in SnapshotType
    BY <1>1, Alone DEF AppInvariant, TypeOK
  <2>2. state'.pending = IF failed[c] THEN state.pending ELSE work[c].pending
    BY <1>1, <2>1, WithBusy
  <2> QED BY <1>1, <2>2, Alone
<1>3. CopiesFit' BY <1>2 DEF CopiesFit, CopyFits, Running
<1>4. \A j \in WriteIds :
        /\ Copied(j) <=> work[c].pending # Nothing /\ work[c].pending.id = j
        /\ ~Copied(j)' /\ (Held(j)' <=> Held(j)) /\ ~Checked(j) /\ ~Checked(j)'
  BY <1>1, <1>2, OnlyCopy
<1>5. CopyFits(c) BY DEF CopiesFit
<1>6. CASE Drafting(c)
  <2>1. /\ work[c].pending # Nothing /\ state'.pending = work[c].pending
        /\ state.pending # Nothing => state.pending.id # work[c].pending.id
    BY <1>1, <1>2, <1>5, <1>6 DEF CopyFits, Drafting
  <2>2. PICK i \in WriteIds : i = work[c].pending.id BY <1>1, <2>1, AddressedTyped
  <2>3. \A j \in WriteIds : (Copied(j) <=> j = i) /\ (Offered(j)' <=> j = i)
    BY <1>4, <2>1, <2>2 DEF Offered
  <2>4. ~Offered(i) BY <2>1, <2>2 DEF Offered
  <2>5. WriteStatus(i) = "drafted" /\ WriteStatus(i)' = "posted"
    <3>1. WriteStatus(i) = "drafted" BY <2>3, <2>4, StatusByPlace
    <3>2. staged[i] # Nothing /\ executed[i] = <<>> /\ ~Held(i) BY <2>3, OnePlaceEach
    <3>3. WriteStatus(i)' = "posted" BY <1>1, <1>4, <2>3, <3>2, StatusAfter
    <3> QED BY <3>1, <3>3
  <2>6. ASSUME NEW j \in WriteIds, j # i
        PROVE  WriteStatus(j)' = IF WriteStatus(j) = "posted" THEN "dropped"
                                 ELSE WriteStatus(j)
    <3>1. CASE Offered(j)
      <4>1. WriteStatus(j) = "posted" BY <1>4, <3>1, StatusByPlace
      <4>2. staged[j] # Nothing /\ executed[j] = <<>> /\ ~Held(j) BY <3>1, OnePlaceEach
      <4>3. WriteStatus(j)' = "dropped" BY <1>1, <1>4, <2>3, <2>6, <4>2, StatusAfter
      <4> QED BY <4>1, <4>3
    <3>2. CASE ~Offered(j)
      <4>1. WriteStatus(j) # "posted" BY <3>2, StatusByPlace
      <4>2. WriteStatus(j)' = WriteStatus(j)
        BY <1>1, <1>4, <2>3, <2>6, <3>2, StatusSame
      <4> QED BY <4>1, <4>2
    <3> QED BY <3>1, <3>2
  <2>7. Approval!Post(i) BY <1>1, <2>5, <2>6 DEF Approval!Post
  <2> QED BY <1>3, <2>7 DEF Follows, Approval!Next
<1>7. CASE ~Drafting(c) /\ Switched(c) /\ state.pending # Nothing
  <2>1. work[c].pending = Nothing /\ state'.pending = Nothing
    BY <1>1, <1>2, <1>5, <1>7 DEF CopyFits, Switched
  <2>2. PICK i \in WriteIds : i = state.pending.id BY <1>1, <1>7, AddressedTyped
  <2>3. \A j \in WriteIds : ~Copied(j) /\ (Offered(j) <=> j = i) /\ ~Offered(j)'
    BY <1>4, <1>7, <2>1, <2>2 DEF Offered
  <2>4. WriteStatus(i) = "posted" /\ WriteStatus(i)' = "dropped"
    <3>1. WriteStatus(i) = "posted" BY <1>4, <2>3, StatusByPlace
    <3>2. staged[i] # Nothing /\ executed[i] = <<>> /\ ~Held(i) BY <2>3, OnePlaceEach
    <3>3. WriteStatus(i)' = "dropped" BY <1>1, <1>4, <2>3, <3>2, StatusAfter
    <3> QED BY <3>1, <3>3
  <2>5. \A j \in WriteIds : j # i => WriteStatus(j)' = WriteStatus(j)
    BY <1>1, <1>4, <2>3, StatusSame
  <2>6. Approval!Drop(i) BY <1>1, <2>4, <2>5, MovesTo DEF Approval!Drop
  <2> QED BY <1>3, <2>6 DEF Follows, Approval!Next
<1>8. CASE ~Drafting(c) /\ ~(Switched(c) /\ state.pending # Nothing)
  <2>1. work[c].pending = state.pending /\ state'.pending = state.pending
    BY <1>1, <1>2, <1>5, <1>8 DEF CopyFits
  <2>2. \A j \in WriteIds : (Copied(j) <=> Offered(j)) /\ (Offered(j)' <=> Offered(j))
    BY <1>4, <2>1 DEF Offered
  <2>3. \A j \in WriteIds : WriteStatus(j)' = WriteStatus(j)
    BY <1>1, <1>4, <2>2, StatusSame
  <2> QED BY <1>1, <1>3, <2>3, LeavesFollows DEF LeavesWrites, StatusKept
<1> QED BY <1>6, <1>7, <1>8

-----------------------------------------------------------------------------
(* The refinement *)

LEMMA InitFollows ==
  ASSUME Init PROVE CopiesFit /\ Approval!Init
<1>1. CopiesFit BY DEF Init, CopiesFit, CopyFits, Running
<1>2. \A i \in WriteIds : WriteStatus(i) = "unused" /\ Len(executed[i]) = 0
  BY DEF Init, WriteStatus
<1> QED BY <1>1, <1>2 DEF Init, Approval!Init

LEMMA StepFollows ==
  ASSUME AppInvariant, CopiesFit, NEW c \in Callers, Step(c) PROVE Follows
<1>1. CASE Call(c) BY <1>1, BesideStep DEF Call
<1>2. CASE Internal(c)
  BY <1>2, BesideStep, BeginFollows, AddProfileFollows, RejectFollows, FailureFollows,
     BrowseActionFollows, OnwardFollows, StageWriteFollows, SetupCheckFollows,
     ApproveCheckedFollows, ConsumeFollows, FinishFollows
     DEF Internal
<1>3. CASE Succeeds(c)
  BY <1>3, OpenStoreFollows, SwitchFollows, LoadFollows, RelistFollows, QueryFollows,
     SentFollows
     DEF Succeeds
<1>4. CASE Fails(c)
  BY <1>4, FailureFollows, LoadFollows, ReloadFailsFollows, SentFollows DEF Fails
<1>5. CASE Timeout(c) \/ CloseLocked(c) BY <1>5, BesideStep
<1> QED BY <1>1, <1>2, <1>3, <1>4, <1>5 DEF Step

LEMMA NextFollows ==
  ASSUME AppInvariant, CopiesFit, [Next]_vars PROVE Follows
<1>1. CASE \E c \in Callers : Step(c) BY <1>1, StepFollows
<1>2. CASE Cancel
  <2>1. cancel \in Callers BY <1>2 DEF Cancel, AppInvariant, TypeOK
  <2> QED BY <1>2, <2>1, BesideStep
<1>3. CASE Lapse BY <1>3, LapseFollows
<1>4. CASE Receive \/ UNCHANGED vars
  <2>1. UNCHANGED <<state, pc, req, work, failed, grant, staged, executed, lapsed>>
    BY <1>4 DEF Receive, vars, coreVars, callVars, writeVars
  <2>2. LeavesWrites BY <2>1, Beside
  <2> QED BY <2>1, <2>2, LeavesFollows
<1> QED BY <1>1, <1>2, <1>3, <1>4 DEF Next

(***************************************************************************)
(* App implements WriteApproval: whatever callers, clock and database do,  *)
(* every write is drafted, posted, accepted while valid, granted and sent  *)
(* at most once in that order, or dropped (StageWrite to ExecuteFails, and *)
(* everything that copies, installs or discards a pending write between).  *)
(***************************************************************************)
THEOREM WritesFollow == Spec => WritesFollowApproval
<1>1. Init => CopiesFit /\ Approval!Init BY InitFollows
<1>2. AppInvariant /\ CopiesFit /\ [Next]_vars => CopiesFit' /\ [Approval!Next]_(Approval!wvars)
  BY NextFollows DEF Follows
<1> QED BY <1>1, <1>2, Invariance, PTL DEF Spec, WritesFollowApproval, Approval!Spec
=============================================================================
