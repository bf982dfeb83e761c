---------------------------- MODULE ScreenProofs ----------------------------
(***************************************************************************)
(* Proofs about App, continued: what is on screen, in the event channel    *)
(* and in the list of profiles.  ScreenInvariant is shown inductive on the *)
(* states of AppInvariant, and the properties that name it follow.         *)
(***************************************************************************)
EXTENDS AppProofs

-----------------------------------------------------------------------------
(* Steps of a call that runs, and of calls that do not *)

(* An operation goes on, and its working copy stays worth what it has to be. *)
LEMMA Worked ==
  ASSUME AppInvariant, ScreenInvariant, NEW c \in Callers, NEW p \in Running,
         NEW b \in BOOLEAN, pc[c] \in Running \ {"finish"},
         pc' = [pc EXCEPT ![c] = p], failed' = [failed EXCEPT ![c] = b],
         UNCHANGED <<closed, state, events, req>>,
         PoolsAccounted', Distinct(profiles'), Added(c)' \/ profiles' = profiles,
         AfterWrite(c)' \/ (UNCHANGED applied /\ ~AfterWrite(c)),
         WorkFits(c)'
  PROVE  ScreenInvariant'
<1> USE Alone DEF ScreenInvariant
<1>1. \A d \in Callers : d # c => pc'[d] \notin Running /\ pc[d] \notin Running
  OBVIOUS
<1>2. \A d \in Callers : WorkFits(d)' BY <1>1 DEF WorkFits
<1>3. \A d \in Callers : d # c => ~Added(d) /\ ~AfterWrite(d)
  BY <1>1 DEF Added, AfterWrite, Running
<1>4. ~Added(c) BY DEF Added
<1>5. (\A d \in Callers : ~Added(d))' => state'.connections = profiles'
  BY <1>3, <1>4 DEF StateFits
<1>6. (\A d \in Callers : ~AfterWrite(d))' => Fresh(state)'
  BY <1>3 DEF StateFits, Fresh
<1>7. StateFits'
  BY <1>5, <1>6
  DEF StateFits, EventIsLatest, PendingFits, TableListed, StructureFits, RowsFit
<1> QED BY <1>2, <1>7

(* It goes on within its own working copy. *)
Apart(c) == UNCHANGED <<closed, store, opened, draft, profiles, views, state, events,
                        req, applied>>

LEMMA Went ==
  ASSUME AppInvariant, ScreenInvariant, NEW c \in Callers, NEW p \in Running,
         pc[c] \in Running \ {"finish"}, Apart(c),
         Goto(c, p, work'[c]) \/ (p = "finish" /\ Return(c, work'[c])),
         AfterWrite(c) => AfterWrite(c)', WorkFits(c)'
  PROVE  ScreenInvariant'
<1> USE Alone
<1>1. PICK b \in BOOLEAN : failed' = [failed EXCEPT ![c] = b]
  <2>1. CASE UNCHANGED failed
    <3>1. failed' = [failed EXCEPT ![c] = failed[c]] /\ failed[c] \in BOOLEAN BY <2>1
    <3> QED BY <3>1
  <2>2. CASE Return(c, work'[c]) BY <2>2 DEF Return
  <2> QED BY <2>1, <2>2 DEF Goto
<1>2. pc' = [pc EXCEPT ![c] = p]
  BY DEF Goto, Return
<1>3. PoolsAccounted' BY DEF Apart, ScreenInvariant, PoolsAccounted
<1>4. Distinct(profiles') BY DEF Apart, ScreenInvariant, StateFits, Distinct
<1> QED BY <1>1, <1>2, <1>3, <1>4, Worked DEF Apart

(* It fails, and its working copy is worth nothing. *)
LEMMA Failed ==
  ASSUME AppInvariant, ScreenInvariant, NEW c \in Callers, pc[c] \in Running \ {"finish"},
         Fail(c), ~AfterWrite(c), PoolsAccounted',
         UNCHANGED <<closed, profiles, state, events, req, applied>>
  PROVE  ScreenInvariant'
<1> USE Alone
<1>1. WorkFits(c)' BY DEF WorkFits, Fail
<1>2. Distinct(profiles') BY DEF ScreenInvariant, StateFits, Distinct
<1> QED BY <1>1, <1>2, Worked DEF Fail, Running

(* Nothing of what is shown changes, and no operation begins, goes on or ends. *)
LEMMA Aside ==
  ASSUME AppInvariant, ScreenInvariant,
         UNCHANGED <<closed, store, opened, draft, profiles, views, state, applied, work,
                     failed>>,
         events' \in {events, Nothing},
         \A c \in Callers : \/ pc'[c] = pc[c] /\ req'[c] = req[c]
                            \/ pc[c] \notin Running /\ pc'[c] \notin Running
  PROVE  ScreenInvariant'
<1> USE DEF ScreenInvariant
<1>1. \A c \in Callers : WorkFits(c)'
  BY DEF WorkFits, PendingFits, TableListed, StructureFits, RowsFit, Fresh, Connecting,
         Switched, Resumes
<1>2. \A c \in Callers : (Added(c)' <=> Added(c)) /\ (AfterWrite(c)' <=> AfterWrite(c))
  BY DEF Added, AfterWrite, Running
<1>3. StateFits'
  BY <1>2
  DEF StateFits, EventIsLatest, Distinct, PendingFits, TableListed, StructureFits, RowsFit,
      Fresh
<1> QED BY <1>1, <1>3 DEF PoolsAccounted

LEMMA AsideStep ==
  ASSUME AppInvariant, ScreenInvariant, NEW c \in Callers,
         \/ \E r \in Requests : TryLock(c, r) \/ CloseCancel(c, r)
         \/ BeginClosed(c) \/ Unlock(c) \/ Timeout(c) \/ Cancel \/ Lapse \/ Receive
  PROVE  ScreenInvariant'
<1> USE Aside DEF AppInvariant, TypeOK, Running, coreVars, callVars, writeVars
<1>1. CASE \E r \in Requests : TryLock(c, r) BY <1>1 DEF TryLock
<1>2. CASE \E r \in Requests : CloseCancel(c, r) BY <1>2 DEF CloseCancel
<1>3. CASE BeginClosed(c) \/ Unlock(c) BY <1>3 DEF BeginClosed, Unlock
<1>4. CASE Timeout(c) \/ Cancel BY <1>4 DEF Timeout, Cancel
<1>5. CASE Lapse \/ Receive BY <1>5 DEF Lapse, Receive
<1> QED BY <1>1, <1>2, <1>3, <1>4, <1>5

-----------------------------------------------------------------------------
(* Steps that publish *)

LEMMA WithBusyShown ==
  ASSUME NEW s \in SnapshotType, NEW b \in BOOLEAN
  PROVE  LET n == [s EXCEPT !.busy = b]
         IN  /\ n.connection = s.connection /\ n.connections = s.connections
             /\ n.tables = s.tables /\ n.schema = s.schema /\ n.browse = s.browse
             /\ n.result = s.result /\ n.query = s.query /\ n.pending = s.pending
BY DEF SnapshotType

LEMMA WithPendingShown ==
  ASSUME NEW s \in SnapshotType, NEW p \in WriteType \cup {Nothing}
  PROVE  LET n == [s EXCEPT !.pending = p]
         IN  /\ n.connection = s.connection /\ n.connections = s.connections
             /\ n.tables = s.tables /\ n.schema = s.schema /\ n.browse = s.browse
             /\ n.result = s.result /\ n.query = s.query /\ n.pending = p
BY DEF SnapshotType

LEMMA WithProfilesShown ==
  ASSUME NEW s \in SnapshotType, NEW x \in Names
  PROVE  LET n == [s EXCEPT !.connections = Append(@, x)]
         IN  /\ n.connection = s.connection /\ n.connections = Append(s.connections, x)
             /\ n.tables = s.tables /\ n.schema = s.schema /\ n.browse = s.browse
             /\ n.result = s.result /\ n.query = s.query /\ n.pending = s.pending
BY DEF SnapshotType

LEMMA Appended ==
  ASSUME NEW s \in Seq(Names), NEW x \in Names, Distinct(s), x \notin InRange(s)
  PROVE  Distinct(Append(s, x))
BY DEF Distinct, InRange

(* Two snapshots that show the same. *)
SameShown(n, s) ==
    /\ n.connection = s.connection /\ n.connections = s.connections
    /\ n.tables = s.tables /\ n.schema = s.schema /\ n.browse = s.browse
    /\ n.result = s.result /\ n.query = s.query

LEMMA BeginFits ==
  ASSUME AppInvariant, ScreenInvariant, NEW c \in Callers, Begin(c)
  PROVE  ScreenInvariant'
<1> USE DEF AppInvariant, ScreenInvariant
<1>1. /\ pc[c] = "locked" /\ ~closed
      /\ work' = [work EXCEPT ![c] = state'] /\ failed' = [failed EXCEPT ![c] = FALSE]
      /\ pc' = [pc EXCEPT ![c] = "perform"] /\ events' = state'
      /\ state' = [state EXCEPT !.busy = TRUE]
      /\ UNCHANGED <<closed, store, opened, profiles, views, req, draft, applied>>
  BY DEF Begin, Closed, Publish, writeVars
<1>2. \A d \in Callers : pc[d] \notin Running /\ (d # c => pc'[d] \notin Running)
  BY <1>1 DEF OneOperation, TypeOK, Holding, Running
<1>3. SameShown(state', state) /\ state'.pending = state.pending
  BY <1>1, WithBusyShown DEF TypeOK, SameShown
<1>4. \A d \in Callers : ~Added(d) /\ ~AfterWrite(d) BY <1>2 DEF Added, AfterWrite, Running
<1>5. Fresh(state)' /\ state'.connections = profiles'
  BY <1>1, <1>3, <1>4 DEF StateFits, Fresh, SameShown
<1>6. /\ PendingFits(state)' /\ TableListed(state)' /\ StructureFits(state)'
      /\ RowsFit(state)'
  BY <1>3
  DEF StateFits, PendingFits, TableListed, StructureFits, RowsFit, SameShown
<1>7. StateFits'
  BY <1>1, <1>3, <1>5, <1>6 DEF StateFits, EventIsLatest, Distinct, SameShown
<1>8. work'[c] = state' /\ pc'[c] = "perform" BY <1>1 DEF TypeOK
<1>9. WorkFits(c)'
  BY <1>5, <1>6, <1>8
  DEF WorkFits, PendingFits, TableListed, StructureFits, RowsFit, Fresh, Switched
<1>10. \A d \in Callers : WorkFits(d)' BY <1>2, <1>9 DEF WorkFits
<1> QED BY <1>1, <1>7, <1>10 DEF PoolsAccounted

LEMMA FinishFits ==
  ASSUME AppInvariant, ScreenInvariant, NEW c \in Callers, Finish(c)
  PROVE  ScreenInvariant'
<1> USE DEF AppInvariant, ScreenInvariant
<1> DEFINE s == IF failed[c] THEN state ELSE work[c]
<1>1. /\ pc[c] = "finish" /\ pc' = [pc EXCEPT ![c] = "unlock"] /\ events' = state'
      /\ state' = [s EXCEPT !.busy = FALSE]
      /\ UNCHANGED <<closed, store, opened, profiles, views, req, draft, applied>>
  BY DEF Finish, Publish, writeVars
<1>2. pc[c] \in Running BY <1>1 DEF Running
<1>3. s \in SnapshotType /\ ~closed BY <1>2, Alone DEF TypeOK
<1>4. \A d \in Callers : pc'[d] \notin Running /\ (d # c => pc[d] \notin Running)
  BY <1>1, <1>2, Alone DEF Running
<1>5. SameShown(state', s) /\ state'.pending = s.pending
  BY <1>1, <1>3, WithBusyShown DEF SameShown
<1>6. \A d \in Callers : d # c => ~Added(d) /\ ~AfterWrite(d)
  BY <1>4 DEF Added, AfterWrite, Running
<1>7. /\ PendingFits(s) /\ TableListed(s) /\ StructureFits(s) /\ RowsFit(s)
      /\ s.connections = profiles /\ Fresh(s)
  <2>1. CASE failed[c] BY <1>6, <2>1, <1>1 DEF StateFits, Added, AfterWrite
  <2>2. CASE ~failed[c] BY <1>1, <1>2, <2>2 DEF WorkFits
  <2> QED BY <2>1, <2>2
<1> HIDE DEF s
<1>8. /\ PendingFits(state)' /\ TableListed(state)' /\ StructureFits(state)'
      /\ RowsFit(state)' /\ Fresh(state)' /\ state'.connections = profiles'
  BY <1>1, <1>5, <1>7
  DEF PendingFits, TableListed, StructureFits, RowsFit, Fresh, SameShown
<1>9. StateFits'
  BY <1>1, <1>3, <1>8 DEF StateFits, EventIsLatest, Distinct
<1>10. \A d \in Callers : WorkFits(d)' BY <1>4 DEF WorkFits
<1> QED BY <1>1, <1>9, <1>10 DEF PoolsAccounted

LEMMA AddProfileFits ==
  ASSUME AppInvariant, ScreenInvariant, NEW c \in Callers, AddProfile(c)
  PROVE  ScreenInvariant'
<1> USE DEF AppInvariant, ScreenInvariant
<1>1. /\ pc[c] = "locked" /\ ~closed /\ pc' = [pc EXCEPT ![c] = "unlock"]
      /\ UNCHANGED <<closed, store, opened, views, req, work, failed, draft, applied>>
  BY DEF AddProfile, Closed, writeVars
<1>2. \A d \in Callers : pc[d] \notin Running /\ pc'[d] \notin Running
  BY <1>1 DEF OneOperation, TypeOK, Holding, Running
<1>3. \A d \in Callers : WorkFits(d)' BY <1>2 DEF WorkFits
<1>4. \A d \in Callers : ~Added(d) /\ ~AfterWrite(d)
  BY <1>2 DEF Added, AfterWrite, Running
<1>5. CASE ~Connectable(req[c].name)
  <2>1. UNCHANGED <<profiles, state, events>> BY <1>5 DEF AddProfile
  <2>2. StateFits'
    BY <1>1, <1>4, <2>1
    DEF StateFits, EventIsLatest, Distinct, PendingFits, TableListed, StructureFits, RowsFit,
        Fresh
  <2> QED BY <1>1, <1>3, <2>2 DEF PoolsAccounted
<1>6. CASE Connectable(req[c].name)
  <2> DEFINE x == req[c].name
  <2>1. /\ profiles' = Append(profiles, x)
        /\ state' = [state EXCEPT !.connections = Append(@, x)] /\ events' = state'
    BY <1>6 DEF AddProfile, Publish
  <2>2. x \in Names /\ x \notin InRange(profiles)
    BY <1>1, <1>6, CallTyped DEF Connectable, RequestType, Holding
  <2>3. Distinct(profiles') BY <2>1, <2>2, Appended DEF StateFits, TypeOK
  <2> HIDE DEF x
  <2>4. /\ state'.connections = profiles'
        /\ state'.pending = state.pending /\ state'.connection = state.connection
        /\ state'.tables = state.tables /\ state'.schema = state.schema
        /\ state'.browse = state.browse /\ state'.result = state.result
        /\ state'.query = state.query
    BY <1>4, <2>1, <2>2, WithProfilesShown DEF StateFits, TypeOK
  <2>5. StateFits'
    BY <1>1, <1>4, <2>1, <2>3, <2>4
    DEF StateFits, EventIsLatest, PendingFits, TableListed, StructureFits, RowsFit, Fresh
  <2> QED BY <1>1, <1>3, <2>5 DEF PoolsAccounted
<1> QED BY <1>5, <1>6

(* The write on offer is withdrawn: nothing else that is shown changes. *)
LEMMA WithdrawnFits ==
  ASSUME AppInvariant, StateFits,
         state' = [state EXCEPT !.pending = Nothing], events' = state',
         UNCHANGED <<closed, store, profiles, applied>>,
         \A d \in Callers : (Added(d)' <=> Added(d)) /\ (AfterWrite(d)' <=> AfterWrite(d))
  PROVE  StateFits'
<1>1. SameShown(state', state) /\ state'.pending = Nothing
  BY WithPendingShown DEF AppInvariant, TypeOK, SameShown
<1> QED
  BY <1>1
  DEF StateFits, EventIsLatest, Distinct, PendingFits, TableListed, StructureFits, RowsFit,
      Fresh, SameShown

LEMMA RejectFits ==
  ASSUME AppInvariant, ScreenInvariant, NEW c \in Callers, Reject(c)
  PROVE  ScreenInvariant'
<1> USE DEF AppInvariant, ScreenInvariant
<1>1. /\ pc[c] = "locked" /\ pc' = [pc EXCEPT ![c] = "unlock"]
      /\ UNCHANGED <<closed, store, opened, profiles, views, req, work, failed, draft, applied>>
  BY DEF Reject
<1>2. \A d \in Callers : pc[d] \notin Running /\ pc'[d] \notin Running
  BY <1>1 DEF OneOperation, TypeOK, Holding, Running
<1>3. \A d \in Callers : WorkFits(d)' BY <1>2 DEF WorkFits
<1>4. \A d \in Callers : ~Added(d) /\ ~AfterWrite(d) /\ ~Added(d)' /\ ~AfterWrite(d)'
  BY <1>2 DEF Added, AfterWrite, Running
<1>5. \/ UNCHANGED <<state, events>>
      \/ state' = [state EXCEPT !.pending = Nothing] /\ events' = state'
  BY DEF Reject, Publish
<1>6. CASE UNCHANGED <<state, events>>
  <2>1. StateFits'
    BY <1>1, <1>4, <1>6
    DEF StateFits, EventIsLatest, Distinct, PendingFits, TableListed, StructureFits, RowsFit,
        Fresh
  <2> QED BY <1>1, <1>3, <2>1 DEF PoolsAccounted
<1>7. CASE state' = [state EXCEPT !.pending = Nothing] /\ events' = state'
  BY <1>1, <1>3, <1>4, <1>7, WithdrawnFits DEF PoolsAccounted
<1> QED BY <1>5, <1>6, <1>7

LEMMA ConsumeFits ==
  ASSUME AppInvariant, ScreenInvariant, NEW c \in Callers, Consume(c)
  PROVE  ScreenInvariant'
<1> USE DEF ScreenInvariant
<1>1. /\ pc[c] = "approve" /\ pc' = [pc EXCEPT ![c] = "execute"]
      /\ work' = [work EXCEPT ![c] = [work[c] EXCEPT !.pending = Nothing]]
      /\ state' = [state EXCEPT !.pending = Nothing] /\ events' = state'
      /\ UNCHANGED <<closed, store, opened, profiles, views, req, failed, draft, applied>>
  BY DEF Consume, Consumed, Publish, Goto
<1>2. pc[c] \in Running BY <1>1 DEF Running
<1>3. \A d \in Callers : d # c => pc[d] \notin Running /\ pc'[d] \notin Running
  BY <1>1, <1>2, Alone
<1>4. \A d \in Callers : ~Added(d) /\ ~AfterWrite(d) /\ ~Added(d)' /\ ~AfterWrite(d)'
  BY <1>1, <1>2, <1>3, Alone DEF Added, AfterWrite, Running
<1>5. StateFits' BY <1>1, <1>4, WithdrawnFits
<1>6. /\ work'[c] = [work[c] EXCEPT !.pending = Nothing] /\ pc'[c] = "execute"
      /\ ~failed[c]
  BY <1>1, <1>2, Alone DEF CallOK
<1>7. SameShown(work'[c], work[c]) /\ work'[c].pending = Nothing
  BY <1>2, <1>6, Alone, WithPendingShown DEF SameShown
<1>8. WorkFits(c)
  OBVIOUS
<1>9. WorkFits(c)'
  BY <1>1, <1>2, <1>6, <1>7, <1>8
  DEF WorkFits, SameShown, PendingFits, TableListed, StructureFits, RowsFit, Fresh, Switched
<1>10. \A d \in Callers : WorkFits(d)' BY <1>3, <1>9 DEF WorkFits
<1> QED BY <1>1, <1>5, <1>10 DEF PoolsAccounted

(* Close frees the store; on an App that is closed it changes nothing. *)
LEMMA CloseLockedFits ==
  ASSUME AppInvariant, ScreenInvariant, NEW c \in Callers, CloseLocked(c)
  PROVE  ScreenInvariant'
<1> USE DEF AppInvariant, ScreenInvariant
<1>1. /\ pc[c] = "closing" /\ pc' = [pc EXCEPT ![c] = "unlock"] /\ closed'
      /\ opened' = IF closed \/ store = Nothing THEN opened
                   ELSE [opened EXCEPT ![store] = Nothing]
      /\ UNCHANGED <<store, profiles, views, state, events, req, work, failed, draft,
                     applied>>
  BY DEF CloseLocked, writeVars
<1>2. \A d \in Callers : pc[d] \notin Running /\ pc'[d] \notin Running
  BY <1>1, NullAssumption DEF CloseLocked, OpFree, OneOperation, TypeOK, Holding, Running
<1>3. \A d \in Callers : WorkFits(d)' BY <1>2 DEF WorkFits
<1>4. \A d \in Callers : ~Added(d) /\ ~AfterWrite(d) /\ draft[d] = Nothing
  BY <1>2 DEF Added, AfterWrite, Running, CallsOK, CallOK
<1>5. store = Nothing <=> state.connection = Nothing
  BY <1>2, NullAssumption
  DEF StateFits, ConnectionOK, Agrees, Switched, Running, PoolsOK, TypeOK
<1>6. StateFits'
  BY <1>1, <1>4, <1>5
  DEF StateFits, EventIsLatest, Distinct, PendingFits, TableListed, StructureFits, RowsFit,
      Fresh
<1>7. PoolsAccounted' BY <1>1, <1>4 DEF PoolsAccounted, TypeOK
<1> QED BY <1>3, <1>6, <1>7

-----------------------------------------------------------------------------
(* Operations that fail *)

LEMMA FailureFits ==
  ASSUME AppInvariant, ScreenInvariant, NEW c \in Callers,
         \/ Refuse(c) \/ ApproveRefused(c) \/ OpenFails(c) \/ LoadFails(c)
         \/ RefreshTablesFail(c) \/ QueryFails(c) \/ ExecuteFails(c)
  PROVE  ScreenInvariant'
<1>1. /\ pc[c] \in {"perform", "open", "load", "refresh-tables", "query", "execute"}
      /\ pc[c] = "load" => req[c].type \in BrowseActions
      /\ Fail(c)
      /\ UNCHANGED <<closed, store, opened, draft, profiles, state, events, req, applied>>
  BY DEF Refuse, ApproveRefused, OpenFails, LoadFails, RefreshTablesFail, QueryFails,
         ExecuteFails, Sent, coreVars, writeVars
<1>2. ~AfterWrite(c) BY <1>1 DEF AfterWrite, BrowseActions
<1>3. PoolsAccounted' BY <1>1 DEF ScreenInvariant, PoolsAccounted
<1> QED BY <1>1, <1>2, <1>3, Failed DEF Running

LEMMA ConnectTablesFailFits ==
  ASSUME AppInvariant, ScreenInvariant, NEW c \in Callers, ConnectTablesFail(c)
  PROVE  ScreenInvariant'
<1>1. /\ pc[c] = "connect-tables" /\ Fail(c)
      /\ opened' = [opened EXCEPT ![draft[c]] = Nothing]
      /\ draft' = [draft EXCEPT ![c] = Nothing]
      /\ UNCHANGED <<closed, store, profiles, state, events, req, applied>>
  BY DEF ConnectTablesFail, Discard, writeVars
<1>2. /\ draft[c] \in Handles /\ draft[c] # store /\ ~closed
      /\ \A d \in Callers : d # c => draft[d] = Nothing
  BY <1>1, AtConnectTables
<1>3. PoolsAccounted'
  BY <1>1, <1>2 DEF ScreenInvariant, PoolsAccounted, AppInvariant, TypeOK
<1> QED BY <1>1, <1>3, Failed DEF AfterWrite, Running

-----------------------------------------------------------------------------
(* Operations that go on *)

(* A call of the store is prepared, or the operation ends, with the copy as it is. *)
LEMMA OnwardFits ==
  ASSUME AppInvariant, ScreenInvariant, NEW c \in Callers,
         \/ StartConnect(c) \/ StartRefresh(c) \/ StartQuery(c) \/ ApproveChecked(c)
  PROVE  ScreenInvariant'
<1>1. /\ pc[c] = "perform" /\ Apart(c)
      /\ \E p \in {"open", "refresh-tables", "query", "approve"} : 
            /\ Goto(c, p, work[c])
            /\ p = "open" => req[c].type \in {"connect", "test"}
            /\ p = "approve" => req[c].type = "approve"
  BY DEF StartConnect, StartRefresh, StartQuery, ApproveChecked, Accepted, Apart, coreVars,
         writeVars
<1>2. PICK p \in {"open", "refresh-tables", "query", "approve"} : 
            /\ Goto(c, p, work[c])
            /\ p = "open" => req[c].type \in {"connect", "test"}
            /\ p = "approve" => req[c].type = "approve"
  BY <1>1
<1>3. pc[c] \in Running /\ p \in Running BY <1>1 DEF Running
<1>4. work'[c] = work[c] /\ pc'[c] = p /\ Goto(c, p, work'[c])
  BY <1>2, <1>3, Alone DEF Goto
<1>5. WorkFits(c)'
  BY <1>1, <1>2, <1>3, <1>4
  DEF ScreenInvariant, WorkFits, PendingFits, TableListed, StructureFits, RowsFit, Fresh,
      Switched, Apart, Goto
<1> QED BY <1>1, <1>2, <1>3, <1>4, <1>5, Went DEF AfterWrite

LEMMA SetupCheckFits ==
  ASSUME AppInvariant, ScreenInvariant, NEW c \in Callers, SetupCheck(c)
  PROVE  ScreenInvariant'
<1>1. /\ pc[c] = "perform" /\ Apart(c) /\ req[c].type \in {"setup", "setup-test"}
      /\ pc[c] \in Running
  BY DEF SetupCheck, Apart, coreVars, writeVars, Running
<1>2. CASE Connectable(req[c].name)
  <2>1. Goto(c, "open", work[c]) /\ req[c].name \notin InRange(profiles)
    BY <1>2 DEF SetupCheck, Connectable
  <2>2. work'[c] = work[c] /\ pc'[c] = "open" /\ Goto(c, "open", work'[c])
    BY <1>1, <2>1, Alone DEF Goto
  <2>3. WorkFits(c)'
    BY <1>1, <2>1, <2>2
    DEF ScreenInvariant, WorkFits, PendingFits, TableListed, StructureFits, RowsFit, Fresh,
        Switched, Apart, Goto
  <2> QED BY <1>1, <2>2, <2>3, Went DEF AfterWrite, Running
<1>3. CASE ~Connectable(req[c].name)
  <2>1. Fail(c) BY <1>3 DEF SetupCheck
  <2>2. PoolsAccounted' BY <1>1 DEF ScreenInvariant, PoolsAccounted, Apart
  <2> QED BY <1>1, <2>1, <2>2, Failed DEF AfterWrite, Apart
<1> QED BY <1>2, <1>3

LEMMA BrowsedShown ==
  ASSUME NEW s \in SnapshotType, NEW b \in BrowseType
  PROVE  LET n == [s EXCEPT !.browse = b]
         IN  /\ n.connection = s.connection /\ n.connections = s.connections
             /\ n.tables = s.tables /\ n.schema = s.schema /\ n.browse = b
             /\ n.result = s.result /\ n.query = s.query /\ n.pending = s.pending
BY DEF SnapshotType

(* A browse request stays with the table shown, or takes one that is listed. *)
LEMMA RequestedListed ==
  ASSUME NEW s \in SnapshotType, NEW r \in RequestType, r.type \in BrowseActions,
         ~Refusable(s, r), TableListed(s), Requested(s, r).table # Nothing
  PROVE  Requested(s, r).table \in s.tables
<1>1. s.browse \in BrowseType BY DEF SnapshotType
<1>2. CASE r.type = "open-table"
  BY <1>2 DEF Requested, FirstPage, Refusable
<1>3. CASE r.type # "open-table"
  <2>1. Requested(s, r).table = s.browse.table
    BY <1>1, <1>3 DEF Requested, FromTop, BrowseType, BrowseActions
  <2> QED BY <2>1 DEF TableListed
<1> QED BY <1>2, <1>3

LEMMA BrowseActionFits ==
  ASSUME AppInvariant, ScreenInvariant, NEW c \in Callers, BrowseAction(c)
  PROVE  ScreenInvariant'
<1> DEFINE r == req[c]
           w == work[c]
<1>1. /\ pc[c] = "perform" /\ Apart(c) /\ r.type \in BrowseActions
      /\ pc[c] \in Running /\ ~Refusable(w, r)
  BY DEF BrowseAction, Accepted, Apart, coreVars, writeVars, Running
<1>2. w \in SnapshotType /\ r \in RequestType /\ ~failed[c] BY <1>1, Alone DEF CallOK
<1>3. WorkFits(c) BY DEF ScreenInvariant
<1>4. CASE AtLastPage(w, r)
  <2>1. Return(c, w) BY <1>4 DEF BrowseAction
  <2>2. work'[c] = w /\ pc'[c] = "finish" /\ Return(c, work'[c])
    BY <1>1, <2>1, Alone DEF Return
  <2>3. WorkFits(c)'
    BY <1>1, <1>2, <1>3, <2>2
    DEF WorkFits, PendingFits, TableListed, StructureFits, RowsFit, Fresh, Switched, Apart,
        BrowseActions
  <2> QED BY <1>1, <2>2, <2>3, Went DEF AfterWrite, Running
<1>5. CASE ~AtLastPage(w, r)
  <2> DEFINE b == Requested(w, r)
             s == [w EXCEPT !.browse = b]
  <2>1. b \in BrowseType /\ b.table # Nothing
    BY <1>1, <1>2, <1>5, RequestedTyped
  <2>2. b.table \in w.tables
    BY <1>1, <1>2, <1>3, <2>1, RequestedListed DEF WorkFits
  <2>3. Goto(c, "load", s) BY <1>5 DEF BrowseAction
  <2> HIDE DEF b
  <2>4. SameShown(s, [w EXCEPT !.browse = b]) /\ s.pending = w.pending /\ s.browse = b
        /\ s.connections = w.connections /\ s.tables = w.tables /\ s.result = w.result
        /\ s.connection = w.connection
    BY <1>2, <2>1, BrowsedShown DEF SameShown
  <2> HIDE DEF s
  <2>5. work'[c] = s /\ pc'[c] = "load" /\ Goto(c, "load", work'[c])
    BY <1>1, <2>3, Alone DEF Goto
  <2>6. WorkFits(c)'
    BY <1>1, <1>2, <1>3, <2>1, <2>2, <2>4, <2>5
    DEF WorkFits, PendingFits, TableListed, Switched, Connecting, Apart, BrowseActions
  <2> QED BY <1>1, <2>5, <2>6, Went DEF AfterWrite, Running
<1> QED BY <1>4, <1>5

LEMMA StageWriteFits ==
  ASSUME AppInvariant, ScreenInvariant, NEW c \in Callers, StageWrite(c)
  PROVE  ScreenInvariant'
<1>1. /\ pc[c] = "perform" /\ Apart(c) /\ pc[c] \in Running /\ req[c].type = "write"
      /\ ~Refusable(work[c], req[c])
  BY DEF StageWrite, Accepted, Apart, coreVars, writeVars, Running
<1>2. /\ work[c] \in SnapshotType /\ req[c] \in RequestType /\ ~failed[c]
  BY <1>1, Alone DEF CallOK
<1>3. PICK i \in WriteIds :
        Return(c, [work[c] EXCEPT !.pending =
                     [id |-> i, connection |-> work[c].connection, sql |-> req[c].sql]])
  BY DEF StageWrite
<1> DEFINE p == [id |-> i, connection |-> work[c].connection, sql |-> req[c].sql]
           s == [work[c] EXCEPT !.pending = p]
<1>4. store # Nothing /\ req[c].sql # Nothing BY <1>1 DEF Refusable
<1>5. p \in WriteType
  BY <1>1, <1>2, <1>4, StoreOpen DEF WriteType, RequestType
<1>6. p.connection = work[c].connection OBVIOUS
<1>7. Return(c, s) BY <1>3
<1> HIDE DEF p
<1>8. SameShown(s, work[c]) /\ s.pending = p
  BY <1>2, <1>5, WithPendingShown DEF SameShown
<1> HIDE DEF s
<1>9. work'[c] = s /\ pc'[c] = "finish" /\ Return(c, work'[c])
  BY <1>1, <1>7, Alone DEF Return
<1>10. WorkFits(c)'
  BY <1>1, <1>2, <1>6, <1>8, <1>9
  DEF ScreenInvariant, WorkFits, SameShown, PendingFits, TableListed, StructureFits, RowsFit,
      Fresh, Switched, Apart
<1> QED BY <1>1, <1>9, <1>10, Went DEF AfterWrite, Running

-----------------------------------------------------------------------------
(* The store has answered *)

LEMMA EmptiedShown ==
  ASSUME NEW s \in SnapshotType
  PROVE  /\ Emptied(s).connection = s.connection /\ Emptied(s).pending = s.pending
         /\ Emptied(s).connections = s.connections
         /\ Emptied(s).browse = EmptyBrowse /\ EmptyBrowse.table = Nothing
         /\ Emptied(s).schema = Nothing /\ Emptied(s).result = Nothing
BY DEF Emptied, SnapshotType, EmptyBrowse, FirstPage

LEMMA RelistFits ==
  ASSUME AppInvariant, ScreenInvariant, NEW c \in Callers,
         RefreshTables(c) \/ ApproveTables(c)
  PROVE  ScreenInvariant'
<1>1. PICK p \in {"refresh-tables", "approve-tables"} : Relist(c, p)
  BY DEF RefreshTables, ApproveTables
<1>2. /\ pc[c] = p /\ pc[c] \in Running /\ Apart(c)
  BY <1>1 DEF Relist, Apart, coreVars, writeVars, Running
<1>3. PICK tables \in SUBSET Tables :
        LET s == [work[c] EXCEPT !.tables = tables]
        IN IF s.browse.table \in tables THEN Goto(c, "load", s) ELSE Return(c, Emptied(s))
  BY <1>1 DEF Relist
<1> DEFINE s == [work[c] EXCEPT !.tables = tables]
<1>4. work[c] \in SnapshotType /\ ~failed[c] /\ ~Connecting(req[c])
  BY <1>2, Alone DEF CallOK, StorePoints
<1>5. /\ s \in SnapshotType /\ s.tables = tables
      /\ s.connection = work[c].connection /\ s.pending = work[c].pending
      /\ s.connections = work[c].connections /\ s.schema = work[c].schema
      /\ s.browse = work[c].browse
  BY <1>4 DEF SnapshotType
<1>6. IF s.browse.table \in tables THEN Goto(c, "load", s) ELSE Return(c, Emptied(s))
  BY <1>3
<1> HIDE DEF s
<1>8. WorkFits(c) BY DEF ScreenInvariant
<1>7. AfterWrite(c) => req[c].type = "approve" BY <1>2, <1>4, <1>8 DEF AfterWrite, WorkFits
<1>9. CASE s.browse.table \in tables
  <2>1. work'[c] = s /\ pc'[c] = "load" /\ Goto(c, "load", work'[c])
    BY <1>2, <1>6, <1>9, Alone DEF Goto
  <2>2. WorkFits(c)'
    BY <1>2, <1>4, <1>5, <1>8, <1>9, <2>1
    DEF WorkFits, PendingFits, TableListed, StructureFits, Switched, Connecting, Apart
  <2> QED BY <1>2, <1>4, <1>7, <2>1, <2>2, Went DEF AfterWrite, Running, Apart, Goto
<1>10. CASE s.browse.table \notin tables
  <2>1. work'[c] = Emptied(s) /\ pc'[c] = "finish" /\ Return(c, work'[c])
    BY <1>2, <1>6, <1>10, Alone DEF Return
  <2>2. WorkFits(c)'
    BY <1>2, <1>4, <1>5, <1>8, <2>1, EmptiedShown
    DEF WorkFits, PendingFits, TableListed, StructureFits, RowsFit, Fresh, Switched,
        Connecting, Apart
  <2>3. ~failed'[c] BY <1>2, <2>1, Alone DEF Return
  <2> QED BY <1>2, <1>7, <2>1, <2>2, <2>3, Went DEF AfterWrite, Running, Apart
<1> QED BY <1>9, <1>10

LEMMA QueryFits ==
  ASSUME AppInvariant, ScreenInvariant, NEW c \in Callers, Query(c)
  PROVE  ScreenInvariant'
<1>1. pc[c] = "query" /\ pc[c] \in Running /\ Apart(c)
  BY DEF Query, Apart, coreVars, writeVars, Running
<1>2. PICK more \in BOOLEAN :
        Return(c, [work[c] EXCEPT !.result = Rows(req[c].sql, more), !.query = TRUE])
  BY DEF Query
<1> DEFINE rows == Rows(req[c].sql, more)
           s == [work[c] EXCEPT !.result = rows, !.query = TRUE]
<1>3. /\ work[c] \in SnapshotType /\ ~failed[c] /\ store # Nothing
      /\ req[c].sql \in SQLs
  BY <1>1, Alone DEF CallOK, StorePoints, RequestType
<1>4. /\ rows.connection = work[c].connection /\ rows.of \in SQLs
      /\ rows.after = applied
  BY <1>1, <1>3, StoreOpen DEF Rows
<1>5. Return(c, s) BY <1>2
<1> HIDE DEF rows
<1>6. /\ s.connection = work[c].connection /\ s.pending = work[c].pending
      /\ s.connections = work[c].connections /\ s.schema = work[c].schema
      /\ s.browse = work[c].browse /\ s.tables = work[c].tables
      /\ s.result = rows /\ s.query = TRUE
  BY <1>3 DEF SnapshotType
<1> HIDE DEF s
<1>7. work'[c] = s /\ pc'[c] = "finish" /\ Return(c, work'[c])
  BY <1>1, <1>5, Alone DEF Return
<1>8. WorkFits(c) BY DEF ScreenInvariant
<1>9. WorkFits(c)'
  BY <1>1, <1>3, <1>4, <1>6, <1>7, <1>8, Alone
  DEF WorkFits, PendingFits, TableListed, StructureFits, RowsFit, Fresh, Switched,
      CallOK, StorePoints, Connecting, Apart
<1> QED BY <1>1, <1>7, <1>9, Went DEF AfterWrite, Running

LEMMA ExecuteFits ==
  ASSUME AppInvariant, ScreenInvariant, NEW c \in Callers, Execute(c)
  PROVE  ScreenInvariant'
<1>1. /\ pc[c] = "execute" /\ pc[c] \in Running
      /\ pc' = [pc EXCEPT ![c] = "approve-tables"] /\ failed' = failed /\ work'[c] = work[c]
      /\ UNCHANGED <<closed, store, opened, draft, profiles, views, state, events, req>>
  BY Alone DEF Execute, Sent, Goto, coreVars, Running
<1>2. failed' = [failed EXCEPT ![c] = failed[c]] /\ failed[c] \in BOOLEAN
      /\ pc'[c] = "approve-tables"
  BY <1>1, Alone
<1>3. WorkFits(c)'
  BY <1>1, <1>2
  DEF ScreenInvariant, WorkFits, PendingFits, TableListed, StructureFits, RowsFit, Switched
<1>4. PoolsAccounted' BY <1>1 DEF ScreenInvariant, PoolsAccounted
<1>5. Distinct(profiles') BY <1>1 DEF ScreenInvariant, StateFits, Distinct
<1> QED BY <1>1, <1>2, <1>3, <1>4, <1>5, Worked DEF AfterWrite, Running

LEMMA UnshownShown ==
  ASSUME NEW s \in SnapshotType, NEW n,
         n = [s EXCEPT !.result = Nothing, !.query = FALSE] \/ n = Unshown(s)
  PROVE  /\ n.connection = s.connection /\ n.connections = s.connections
         /\ n.tables = s.tables /\ n.schema = s.schema /\ n.browse = s.browse
         /\ n.result = Nothing /\ n.pending = s.pending
BY DEF SnapshotType, Unshown

LEMMA ReloadFailsFits ==
  ASSUME AppInvariant, ScreenInvariant, NEW c \in Callers,
         RefreshLoadFails(c) \/ ApproveLoadFails(c) \/ ApproveTablesFail(c)
  PROVE  ScreenInvariant'
<1>1. /\ pc[c] \in {"load", "approve-tables"} /\ pc[c] \in Running /\ Apart(c)
      /\ pc[c] = "load" => req[c].type \in {"refresh", "approve"}
      /\ pc[c] = "load" /\ req[c].type = "refresh" => ~AfterWrite(c)
  BY DEF RefreshLoadFails, ApproveLoadFails, ApproveTablesFail, Apart, coreVars, writeVars,
         Running, AfterWrite
<1>2. work[c] \in SnapshotType /\ ~failed[c] BY <1>1, Alone DEF CallOK
<1>3. \E n : /\ Return(c, n)
             /\ n = [work[c] EXCEPT !.result = Nothing, !.query = FALSE] \/ n = Unshown(work[c])
  BY DEF RefreshLoadFails, ApproveLoadFails, ApproveTablesFail
<1>4. /\ pc'[c] = "finish" /\ Return(c, work'[c]) /\ ~failed'[c]
      /\ work'[c] = [work[c] EXCEPT !.result = Nothing, !.query = FALSE]
         \/ work'[c] = Unshown(work[c])
  BY <1>1, <1>3, Alone DEF Return
<1>5. LET n == work'[c] s == work[c]
      IN  /\ n.connection = s.connection /\ n.connections = s.connections
          /\ n.tables = s.tables /\ n.schema = s.schema /\ n.browse = s.browse
          /\ n.result = Nothing /\ n.pending = s.pending
  BY <1>2, <1>4, UnshownShown
<1>6. WorkFits(c) BY DEF ScreenInvariant
<1>7. WorkFits(c)'
  BY <1>1, <1>2, <1>4, <1>5, <1>6
  DEF WorkFits, PendingFits, TableListed, StructureFits, RowsFit, Fresh, Switched, Apart,
      BrowseActions
<1>8. AfterWrite(c) => AfterWrite(c)'
  BY <1>1, <1>2, <1>4, <1>6 DEF AfterWrite, WorkFits, Apart
<1> QED BY <1>1, <1>4, <1>7, <1>8, Went DEF Running

(* The copy n shows the table of s, loaded from the store. *)
LoadedFrom(n, s) ==
    /\ n \in SnapshotType
    /\ n.connection = s.connection /\ n.connections = s.connections
    /\ n.tables = s.tables /\ n.browse = s.browse /\ n.pending = s.pending
    /\ n.schema = [connection |-> s.connection, table |-> s.browse.table]
    /\ n.schema # Nothing
    /\ n.query = FALSE /\ n.result.connection = s.connection
    /\ n.result.of = s.browse /\ n.result.after = applied

LEMMA LoadedShown ==
  ASSUME AppInvariant, NEW c \in Callers, pc[c] \in Running, store # Nothing,
         NEW s \in SnapshotType, s.browse.table # Nothing, NEW more \in BOOLEAN,
         s.connection = opened[store], NEW n, n = Loaded(s, more)
  PROVE  LoadedFrom(n, s)
<1> DEFINE schema == [connection |-> opened[store], table |-> s.browse.table]
           rows == Rows(s.browse, more)
<1>1. n \in SnapshotType BY LoadedTyped
<1>2. n = [s EXCEPT !.schema = schema, !.result = rows, !.query = FALSE] BY DEF Loaded
<1>3. rows.connection = s.connection /\ rows.of = s.browse /\ rows.after = applied
  BY DEF Rows
<1>4. schema # Nothing
  <2>1. s.browse \in BrowseType BY DEF SnapshotType
  <2>2. schema \in [connection : Names, table : Tables]
    BY <2>1, StoreOpen DEF BrowseType
  <2> QED BY <2>2, NullAssumption
<1> HIDE DEF schema, rows
<1>5. /\ n.connection = s.connection /\ n.connections = s.connections
      /\ n.tables = s.tables /\ n.browse = s.browse /\ n.pending = s.pending
      /\ n.schema = schema /\ n.query = FALSE /\ n.result = rows
  BY <1>2 DEF SnapshotType
<1> QED BY <1>1, <1>3, <1>4, <1>5 DEF schema, LoadedFrom

LEMMA WithProfileShown ==
  ASSUME NEW s \in SnapshotType, NEW r \in RequestType, r.type = "setup" => r.name \in Names
  PROVE  LET n == WithProfile(r, s)
         IN  /\ n.connection = s.connection
             /\ n.connections = IF r.type = "setup" THEN Append(s.connections, r.name)
                                ELSE s.connections
             /\ n.tables = s.tables /\ n.schema = s.schema /\ n.browse = s.browse
             /\ n.result = s.result /\ n.query = s.query /\ n.pending = s.pending
BY WithProfilesShown DEF WithProfile

(* What "load" ends with: the profile of a setup is listed, and its rows shown or not. *)
LEMMA LoadEnds ==
  ASSUME AppInvariant, ScreenInvariant, NEW c \in Callers, pc[c] = "load",
         NEW s \in SnapshotType, Return(c, WithProfile(req[c], s)), Installed(req[c]),
         UNCHANGED <<closed, store, opened, views, state, events, req, draft, applied>>,
         s.connection = work[c].connection, s.connections = work[c].connections,
         s.tables = work[c].tables, s.browse = work[c].browse, s.pending = work[c].pending,
         StructureFits(s), RowsFit(s), Fresh(s)
  PROVE  ScreenInvariant'
<1> DEFINE r == req[c]
           n == WithProfile(r, s)
<1>1. /\ pc[c] \in Running /\ r \in RequestType /\ ~failed[c]
      /\ r.type = "setup" => r.name \in Names
  BY Alone, AtLoad DEF Running, CallOK
<1>2. WorkFits(c) BY DEF ScreenInvariant
<1>3. /\ n.connection = s.connection /\ n.tables = s.tables /\ n.schema = s.schema
      /\ n.connections = IF r.type = "setup" THEN Append(s.connections, r.name)
                         ELSE s.connections
      /\ n.browse = s.browse /\ n.result = s.result /\ n.query = s.query
      /\ n.pending = s.pending
  BY <1>1, WithProfileShown
<1>4. /\ work'[c] = n /\ pc'[c] = "finish" /\ ~failed'[c]
      /\ pc' = [pc EXCEPT ![c] = "finish"] /\ failed' = [failed EXCEPT ![c] = FALSE]
  BY <1>1, Alone DEF Return
<1> HIDE DEF n
<1>5. profiles' = IF r.type = "setup" THEN Append(profiles, r.name) ELSE profiles
  BY DEF Installed
<1>6. n.connections = profiles' BY <1>1, <1>2, <1>3, <1>5 DEF WorkFits
<1>7. Distinct(profiles')
  BY <1>1, <1>2, <1>5, Alone, Appended DEF ScreenInvariant, StateFits, WorkFits
<1>8. Switched(c)' => Switched(c) BY <1>1 DEF Switched
<1>9. WorkFits(c)'
  BY <1>1, <1>2, <1>3, <1>4, <1>6, <1>8
  DEF WorkFits, PendingFits, TableListed, StructureFits, RowsFit, Fresh, Resumes
<1>10. AfterWrite(c) => AfterWrite(c)' BY <1>1, <1>4 DEF AfterWrite
<1>11. PoolsAccounted' BY DEF ScreenInvariant, PoolsAccounted
<1>12. Added(c)' \/ profiles' = profiles BY <1>4, <1>5 DEF Added
<1> QED BY <1>1, <1>4, <1>7, <1>9, <1>10, <1>11, <1>12, Worked DEF Running

LEMMA LoadFits ==
  ASSUME AppInvariant, ScreenInvariant, NEW c \in Callers, Load(c)
  PROVE  ScreenInvariant'
<1>1. /\ pc[c] = "load" /\ Installed(req[c]) /\ pc[c] \in Running
      /\ UNCHANGED <<closed, store, opened, views, state, events, req, draft, applied>>
  BY DEF Load, writeVars, Running
<1>2. PICK more \in BOOLEAN : Return(c, WithProfile(req[c], Loaded(work[c], more)))
  BY DEF Load
<1> DEFINE w == work[c]
           s == Loaded(w, more)
<1>3. w \in SnapshotType /\ store # Nothing /\ w.browse.table # Nothing
  BY <1>1, AtLoad
<1>4. w.connection = opened[store] BY <1>1, <1>3, StoreOpen
<1>5. Return(c, WithProfile(req[c], s)) /\ s = Loaded(w, more) /\ w = work[c] BY <1>2
<1> HIDE DEF s, w
<1>6. s \in SnapshotType /\ s.connection = w.connection
  BY <1>1, <1>3, <1>5, LoadedTyped
<1>7. /\ pc[c] \in Running /\ store # Nothing
      /\ w \in SnapshotType /\ w.browse.table # Nothing /\ w.connection = opened[store]
      /\ s = Loaded(w, more)
  BY <1>1, <1>3, <1>4, <1>5
<1>8. LoadedFrom(s, w) BY <1>7, LoadedShown
<1>9. /\ s.connections = w.connections /\ s.tables = w.tables
      /\ s.browse = w.browse /\ s.pending = w.pending
      /\ s.schema = [connection |-> w.connection, table |-> w.browse.table]
      /\ s.schema # Nothing /\ s.query = FALSE
      /\ s.result.connection = w.connection /\ s.result.of = w.browse
      /\ s.result.after = applied
  BY <1>8 DEF LoadedFrom
<1>12. StructureFits(s) /\ RowsFit(s) /\ Fresh(s)
  BY <1>6, <1>9 DEF StructureFits, RowsFit, Fresh
<1> QED BY <1>1, <1>5, <1>6, <1>9, <1>12, LoadEnds

LEMMA ConnectLoadFailsFits ==
  ASSUME AppInvariant, ScreenInvariant, NEW c \in Callers, ConnectLoadFails(c)
  PROVE  ScreenInvariant'
<1>1. /\ pc[c] = "load" /\ Installed(req[c]) /\ Connecting(req[c])
      /\ req[c].type \notin BrowseActions /\ Return(c, WithProfile(req[c], work[c]))
      /\ UNCHANGED <<closed, store, opened, views, state, events, req, draft, applied>>
  BY DEF ConnectLoadFails, writeVars, Connecting, BrowseActions
<1>2. work[c] \in SnapshotType /\ ~failed[c] BY <1>1, Alone DEF Running, CallOK
<1>3. StructureFits(work[c]) /\ work[c].result = Nothing
  BY <1>1, <1>2 DEF ScreenInvariant, WorkFits, Running
<1>4. RowsFit(work[c]) /\ Fresh(work[c]) BY <1>3 DEF RowsFit, Fresh
<1> QED BY <1>1, <1>2, <1>3, <1>4, LoadEnds

LEMMA OpenStoreFits ==
  ASSUME AppInvariant, ScreenInvariant, NEW c \in Callers, OpenStore(c)
  PROVE  ScreenInvariant'
<1>1. /\ pc[c] = "open" /\ pc[c] \in Running
      /\ UNCHANGED <<closed, store, profiles, views, state, events, req, applied>>
  BY DEF OpenStore, writeVars, Running
<1>2. WorkFits(c) /\ ~failed[c] BY <1>1, Alone DEF ScreenInvariant, CallOK
<1>3. CASE Testing(req[c])
  <2>1. Return(c, work[c]) /\ UNCHANGED <<opened, draft>> BY <1>3 DEF OpenStore
  <2>2. work'[c] = work[c] /\ pc'[c] = "finish" /\ Return(c, work'[c])
    BY <1>1, <2>1, Alone DEF Return
  <2>3. WorkFits(c)'
    BY <1>1, <1>2, <1>3, <2>2
    DEF WorkFits, PendingFits, TableListed, StructureFits, RowsFit, Fresh, Switched, Testing
  <2> QED BY <1>1, <2>1, <2>2, <2>3, Went DEF Apart, AfterWrite, Running
<1>4. CASE ~Testing(req[c])
  <2>1. PICK h \in Handles :
          /\ opened[h] = Nothing /\ opened' = [opened EXCEPT ![h] = req[c].name]
          /\ draft' = [draft EXCEPT ![c] = h] /\ Goto(c, "connect-tables", work[c])
    BY <1>4 DEF OpenStore
  <2>2. /\ work'[c] = work[c] /\ pc'[c] = "connect-tables"
        /\ pc' = [pc EXCEPT ![c] = "connect-tables"]
        /\ failed' = [failed EXCEPT ![c] = failed[c]] /\ failed[c] \in BOOLEAN
    BY <1>1, <2>1, Alone DEF Goto
  <2>3. WorkFits(c)'
    BY <1>1, <1>2, <2>2
    DEF WorkFits, PendingFits, TableListed, StructureFits, RowsFit, Fresh, Switched
  <2>4. req[c].name # Nothing /\ ~closed /\ \A d \in Callers : draft[d] = Nothing
    BY <1>1, Alone DEF CallOK, AppInvariant, CallsOK, Running
  <2>5. PoolsAccounted'
    BY <1>1, <2>1, <2>4, NullAssumption
    DEF ScreenInvariant, PoolsAccounted, AppInvariant, TypeOK
  <2>6. Distinct(profiles') BY <1>1 DEF ScreenInvariant, StateFits, Distinct
  <2> QED BY <1>1, <2>2, <2>3, <2>5, <2>6, Worked DEF AfterWrite, Running
<1> QED BY <1>3, <1>4

(* The view a connection is shown with: one of its tables, and its own if it exists. *)
LEMMA RestoredShown ==
  ASSUME NEW view \in BrowseType \cup {Nothing}, NEW tables \in SUBSET Tables
  PROVE  /\ Restored(view, tables).table \in tables \cup {Nothing}
         /\ view # Nothing /\ view.table \in tables => Restored(view, tables) = view
BY NullAssumption DEF Restored, EmptyBrowse, FirstPage, BrowseType

(* The first table is only taken where no table was restored. *)
LEMMA FirstShown ==
  ASSUME NEW view \in BrowseType, NEW tables \in SUBSET Tables, NEW first \in tables,
         view.table \in tables \cup {Nothing}, NEW b,
         b = [view EXCEPT !.table = IF @ = Nothing THEN first ELSE @]
  PROVE  b \in BrowseType /\ b.table \in tables /\ (view.table \in tables => b = view)
BY NullAssumption DEF BrowseType

(* The working copy that connectProfile leaves, with the store replaced. *)
LEMMA SwitchedFits ==
  ASSUME AppInvariant, ScreenInvariant, NEW c \in Callers, pc[c] = "connect-tables",
         NEW tables \in SUBSET Tables, NEW b \in BrowseType, NEW p \in {"load", "finish"},
         b.table \in tables \cup {Nothing}, views' = Saved(work[c]),
         LET kept == views'[req[c].name]
         IN kept # Nothing /\ kept.table \in tables => b = kept,
         pc'[c] = p, ~failed'[c], UNCHANGED <<req, state, applied>>,
         work'[c].connection = req[c].name, work'[c].connections = profiles',
         work'[c].tables = tables, work'[c].browse = b, work'[c].schema = Nothing,
         work'[c].result = Nothing, work'[c].pending = Nothing,
         p = "load" => profiles' = profiles
  PROVE  WorkFits(c)'
<1>1. /\ work[c].connection = state.connection /\ work[c].browse = state.browse
      /\ req[c].type = "setup" => req[c].name \notin InRange(profiles)
      /\ req[c].type \in {"connect", "setup"} /\ work[c] \in SnapshotType
  BY AtConnectTables DEF ScreenInvariant, WorkFits, Running
<1>2. state.connection # Nothing => views'[state.connection] = state.browse
  <2>1. Agrees(work[c]) BY Alone DEF Running
  <2>2. SUFFICES ASSUME state.connection # Nothing
                 PROVE  views'[state.connection] = state.browse
    OBVIOUS
  <2>3. store # Nothing BY <1>1, <2>1, <2>2 DEF Agrees
  <2>4. views' = [views EXCEPT ![work[c].connection] = work[c].browse]
    BY <2>3 DEF Saved
  <2>5. work[c].connection \in Names BY <2>3, StoreOpen DEF Running
  <2>6. views \in [Names -> BrowseType \cup {Nothing}] BY DEF AppInvariant, TypeOK
  <2> QED BY <1>1, <2>4, <2>5, <2>6
<1>3. Resumes(work[c])' BY DEF Resumes
<1> QED
  BY <1>1, <1>2, <1>3, NullAssumption
  DEF WorkFits, PendingFits, TableListed, StructureFits, RowsFit, Fresh, Connecting,
      BrowseActions

LEMMA SwitchFits ==
  ASSUME AppInvariant, ScreenInvariant, NEW c \in Callers, Switch(c)
  PROVE  ScreenInvariant'
<1>1. /\ pc[c] = "connect-tables" /\ pc[c] \in Running
      /\ views' = Saved(work[c])
      /\ opened' = [h \in Handles |-> IF h = store THEN Nothing ELSE opened[h]]
      /\ store' = draft[c] /\ draft' = [draft EXCEPT ![c] = Nothing]
      /\ UNCHANGED <<closed, state, events, req, applied>>
  BY DEF Switch, Running, writeVars
<1> DEFINE name == req[c].name
           w == work[c]
<1>2. /\ w \in SnapshotType /\ req[c] \in RequestType
      /\ name \in Names /\ req[c].type \in {"connect", "setup"}
      /\ draft[c] \in Handles /\ draft[c] # store /\ opened[draft[c]] = name
      /\ ~closed /\ ~failed[c]
      /\ \A d \in Callers : d # c => draft[d] = Nothing
  BY <1>1, AtConnectTables
<1>3. /\ w.connections = profiles
      /\ req[c].type = "setup" => name \notin InRange(profiles)
      /\ profiles \in Seq(Names) /\ Distinct(profiles)
      /\ pc \in [Callers -> Points] /\ failed \in [Callers -> BOOLEAN]
      /\ work \in [Callers -> SnapshotType \cup {Nothing}]
  BY <1>1, <1>2, Alone DEF ScreenInvariant, StateFits, WorkFits
<1>4. PoolsAccounted'
  BY <1>1, <1>2, NullAssumption DEF ScreenInvariant, PoolsAccounted, AppInvariant, TypeOK
<1>5. PICK tables \in SUBSET Tables :
        LET view == Restored(Saved(w)[name], tables)
        IN IF tables = {}
           THEN /\ Return(c, WithProfile(req[c], Connected(w, name, tables, view)))
                /\ Installed(req[c])
           ELSE /\ \E first \in tables :
                      Goto(c, "load",
                           Connected(w, name, tables,
                                     [view EXCEPT !.table = IF @ = Nothing THEN first
                                                            ELSE @]))
                /\ UNCHANGED profiles
  BY DEF Switch
<1> DEFINE kept == Saved(w)[name]
           view == Restored(kept, tables)
<1>6. /\ kept \in BrowseType \cup {Nothing} /\ view \in BrowseType
      /\ view.table \in tables \cup {Nothing}
      /\ kept # Nothing /\ kept.table \in tables => view = kept
  <2>1. kept \in BrowseType \cup {Nothing} BY <1>1, <1>2, SavedTyped
  <2> HIDE DEF kept
  <2> QED BY <2>1, RestoredTyped, RestoredShown
<1>7. CASE tables = {}
  <2> DEFINE s == Connected(w, name, tables, view)
             n == WithProfile(req[c], s)
  <2>1. Return(c, n) /\ Installed(req[c]) BY <1>5, <1>7
  <2>2. s \in SnapshotType BY <1>2, <1>6, ConnectedTyped
  <2>3. /\ s.connection = name /\ s.connections = w.connections /\ s.tables = tables
        /\ s.schema = Nothing /\ s.browse = view /\ s.result = Nothing
        /\ s.pending = Nothing
    <3> HIDE DEF view, w, name
    <3> QED BY <1>2, <1>6 DEF Connected, SnapshotType
  <2> HIDE DEF s
  <2>4. /\ n.connection = name /\ n.tables = tables /\ n.schema = Nothing
        /\ n.connections = IF req[c].type = "setup" THEN Append(s.connections, name)
                           ELSE s.connections
        /\ n.browse = view /\ n.result = Nothing /\ n.pending = Nothing
    BY <1>2, <2>2, <2>3, WithProfileShown
  <2> HIDE DEF n
  <2>5. /\ work'[c] = n /\ pc'[c] = "finish" /\ ~failed'[c]
        /\ pc' = [pc EXCEPT ![c] = "finish"] /\ failed' = [failed EXCEPT ![c] = FALSE]
    BY <1>3, <2>1 DEF Return
  <2>6. profiles' = IF req[c].type = "setup" THEN Append(profiles, name) ELSE profiles
    BY <2>1 DEF Installed
  <2>7. n.connections = profiles' BY <1>3, <2>3, <2>4, <2>6
  <2>8. Distinct(profiles') BY <1>2, <1>3, <2>6, Appended
  <2>9. Added(c)' \/ profiles' = profiles BY <1>1, <2>5, <2>6 DEF Added
  <2> HIDE DEF view
  <2>10. WorkFits(c)' BY <1>1, <1>6, <2>4, <2>5, <2>7, SwitchedFits
  <2> QED BY <1>1, <1>2, <1>4, <2>5, <2>8, <2>9, <2>10, Worked DEF AfterWrite, Running
<1>8. CASE tables # {}
  <2>1. PICK first \in tables :
          Goto(c, "load",
               Connected(w, name, tables,
                         [view EXCEPT !.table = IF @ = Nothing THEN first ELSE @]))
    BY <1>5, <1>8
  <2>2. UNCHANGED profiles BY <1>5, <1>8
  <2> HIDE DEF view
  <2> DEFINE b == [view EXCEPT !.table = IF @ = Nothing THEN first ELSE @]
             n == Connected(w, name, tables, b)
  <2>3. /\ b \in BrowseType /\ b.table \in tables
        /\ view.table \in tables => b = view
    BY <1>6, FirstShown
  <2>4. Goto(c, "load", n) BY <2>1
  <2> HIDE DEF b
  <2>5. /\ n.connection = name /\ n.connections = w.connections /\ n.tables = tables
        /\ n.schema = Nothing /\ n.browse = b /\ n.result = Nothing
        /\ n.pending = Nothing
    <3> HIDE DEF w, name
    <3> QED BY <1>2, <2>3 DEF Connected, SnapshotType
  <2> HIDE DEF n
  <2>6. /\ work'[c] = n /\ pc'[c] = "load" /\ ~failed'[c]
        /\ pc' = [pc EXCEPT ![c] = "load"]
        /\ failed' = [failed EXCEPT ![c] = FALSE]
    BY <1>2, <1>3, <2>4 DEF Goto
  <2>7. kept # Nothing /\ kept.table \in tables => b = kept BY <1>6, <2>3
  <2>8. WorkFits(c)'
    BY <1>1, <1>3, <2>2, <2>3, <2>5, <2>6, <2>7, SwitchedFits
  <2>9. Distinct(profiles') BY <1>3, <2>2
  <2> QED BY <1>1, <1>2, <1>4, <2>2, <2>6, <2>8, <2>9, Worked DEF AfterWrite, Running
<1> QED BY <1>7, <1>8

-----------------------------------------------------------------------------
(* The invariant *)

LEMMA InitFits ==
  ASSUME Init PROVE ScreenInvariant
<1> USE DEF Init
<1>1. EmptyBrowse.table = Nothing BY DEF EmptyBrowse, FirstPage
<1>2. PoolsAccounted BY DEF PoolsAccounted
<1>3. \A c \in Callers : WorkFits(c) BY DEF WorkFits, Running
<1>4. StateFits
  BY <1>1, OptionsAssumption
  DEF StateFits, EventIsLatest, Distinct, PendingFits, TableListed, StructureFits, RowsFit,
      Fresh
<1> QED BY <1>2, <1>3, <1>4 DEF ScreenInvariant

LEMMA StepFits ==
  ASSUME AppInvariant, ScreenInvariant, NEW c \in Callers, Step(c) PROVE ScreenInvariant'
<1>1. CASE Call(c) BY <1>1, AsideStep DEF Call
<1>2. CASE Internal(c)
  BY <1>2, AsideStep, BeginFits, AddProfileFits, RejectFits, FailureFits, BrowseActionFits,
     OnwardFits, StageWriteFits, SetupCheckFits, ConsumeFits, FinishFits
     DEF Internal
<1>3. CASE Succeeds(c)
  BY <1>3, OpenStoreFits, SwitchFits, LoadFits, RelistFits, QueryFits, ExecuteFits
     DEF Succeeds
<1>4. CASE Fails(c)
  BY <1>4, FailureFits, ConnectTablesFailFits, ConnectLoadFailsFits, ReloadFailsFits
     DEF Fails
<1>5. CASE Timeout(c) \/ CloseLocked(c) BY <1>5, AsideStep, CloseLockedFits
<1> QED BY <1>1, <1>2, <1>3, <1>4, <1>5 DEF Step

LEMMA NextFits ==
  ASSUME AppInvariant, ScreenInvariant, [Next]_vars PROVE ScreenInvariant'
<1>1. CASE \E c \in Callers : Step(c) BY <1>1, StepFits
<1>2. CASE Cancel
  <2>1. cancel \in Callers BY <1>2 DEF Cancel, AppInvariant, TypeOK
  <2> QED BY <1>2, <2>1, AsideStep
<1>3. CASE Lapse \/ Receive \/ UNCHANGED vars
  <2>1. /\ UNCHANGED <<closed, store, opened, draft, profiles, views, state, applied, work,
                       failed, pc, req>>
        /\ events' \in {events, Nothing}
    BY <1>3 DEF Lapse, Receive, vars, coreVars, callVars, writeVars
  <2> QED BY <2>1, Aside
<1> QED BY <1>1, <1>2, <1>3 DEF Next

LEMMA ScreenInvariance == Spec => [](AppInvariant /\ ScreenInvariant)
<1>1. Init => AppInvariant /\ ScreenInvariant BY InitOK, InitFits
<1>2. AppInvariant /\ ScreenInvariant /\ [Next]_vars => (AppInvariant /\ ScreenInvariant)'
  BY NextOK, NextFits
<1> QED BY <1>1, <1>2, PTL DEF Spec

(* Between operations no call runs. *)
LEMMA Quiet ==
  ASSUME AppInvariant, ~state.busy
  PROVE  \A c \in Callers : pc[c] \notin Running /\ ~Added(c) /\ ~AfterWrite(c) /\ ~Switched(c)
BY DEF AppInvariant, OneOperation, Running, Added, AfterWrite, Switched

-----------------------------------------------------------------------------
(***************************************************************************)
(* No pool leaks and none is closed in use: what is open is the store and  *)
(* the draft of a connect in flight, and nothing after Close               *)
(* (connectProfile and Close).                                             *)
(***************************************************************************)
THEOREM NoPoolLeaks == Spec => []PoolsAccounted
<1>1. ScreenInvariant => PoolsAccounted BY DEF ScreenInvariant
<1> QED BY <1>1, ScreenInvariance, PTL

(***************************************************************************)
(* The write on offer is as it was staged, for the connection on screen,   *)
(* and was neither sent, taken nor rejected (Approve, Reject, and the end  *)
(* of connectProfile, which drops it).                                     *)
(***************************************************************************)
THEOREM OfferStands == Spec => []PendingIsOpen
<1>1. AppInvariant /\ ScreenInvariant => PendingIsOpen
  BY DEF AppInvariant, WritesOK, Open, ScreenInvariant, StateFits, PendingFits, PendingIsOpen
<1> QED BY <1>1, ScreenInvariance, PTL

(***************************************************************************)
(* What waits in the event channel is the current snapshot, so a reader    *)
(* that empties the channel is up to date (publishLocked).                 *)
(***************************************************************************)
THEOREM LatestEvent == Spec => []EventIsLatest
<1>1. ScreenInvariant => EventIsLatest BY DEF ScreenInvariant, StateFits
<1> QED BY <1>1, ScreenInvariance, PTL

(***************************************************************************)
(* Between operations the snapshot names the connection of the store and   *)
(* lists App.profiles, whichever step of a connect or Setup failed.        *)
(***************************************************************************)
THEOREM StateFollowsApp == Spec => []StateMatchesApp
<1>1. ASSUME AppInvariant, ScreenInvariant, ~state.busy
      PROVE  /\ store = Nothing <=> state.connection = Nothing
             /\ store # Nothing /\ ~closed => opened[store] = state.connection
             /\ state.connections = profiles
             /\ \A i, j \in 1..Len(profiles) : profiles[i] = profiles[j] => i = j
  <2>1. ~closed => Agrees(state) BY <1>1, Quiet DEF AppInvariant, ConnectionOK
  <2>2. store # Nothing /\ ~closed => opened[store] # Nothing
    BY <1>1 DEF AppInvariant, PoolsOK
  <2>3. store = Nothing <=> state.connection = Nothing
    BY <1>1, <2>1, <2>2 DEF Agrees, ScreenInvariant, StateFits
  <2>4. state.connections = profiles BY <1>1, Quiet DEF ScreenInvariant, StateFits
  <2> QED BY <1>1, <2>1, <2>3, <2>4 DEF Agrees, ScreenInvariant, StateFits, Distinct
<1>2. AppInvariant /\ ScreenInvariant => StateMatchesApp BY <1>1 DEF StateMatchesApp
<1> QED BY <1>2, ScreenInvariance, PTL

(***************************************************************************)
(* Table, structure and rows on screen always belong together, whichever   *)
(* call of the store failed on the way (perform, browse, connectProfile).  *)
(***************************************************************************)
THEOREM ScreenBelongsTogether == Spec => []ScreenConsistent
<1>1. ScreenInvariant => ScreenConsistent
  BY DEF ScreenInvariant, StateFits, TableListed, StructureFits, RowsFit, ScreenConsistent,
         ShownTogether
<1> QED BY <1>1, ScreenInvariance, PTL

(***************************************************************************)
(* Between operations no row on screen is older than a write that          *)
(* succeeded (Approve and the reload it ends with).                        *)
(***************************************************************************)
THEOREM NoStaleRows == Spec => []RowsFollowWrites
<1>1. AppInvariant /\ ScreenInvariant => RowsFollowWrites
  BY Quiet DEF ScreenInvariant, StateFits, Fresh, RowsFollowWrites
<1> QED BY <1>1, ScreenInvariance, PTL

(***************************************************************************)
(* After Close nothing is published, opened or executed (Close, begin).    *)
(***************************************************************************)
THEOREM NothingAfterAppClose == Spec => QuietAfterClose
<1> DEFINE Kept == closed => /\ closed' /\ UNCHANGED <<state, cancel, opened, executed>>
                             /\ events' \in {events, Nothing}
<1>1. ASSUME AppInvariant, Next, closed PROVE Kept
  <2>1. \A c \in Callers : pc[c] \notin Running BY <1>1 DEF AppInvariant, PoolsOK
  <2> USE DEF Kept, coreVars, writeVars, Closed
  <2>2. ASSUME NEW c \in Callers, Call(c) PROVE Kept
    BY <2>2 DEF Call, TryLock, CloseCancel
  <2>3. ASSUME NEW c \in Callers, Internal(c) PROVE Kept
    BY <1>1, <2>1, <2>3
    DEF Internal, BeginClosed, Begin, AddProfile, Reject, Refuse, BrowseAction, StartConnect,
        StartRefresh, StartQuery, StageWrite, SetupCheck, ApproveRefused, ApproveChecked,
        Consume, Finish, Unlock, Accepted, Running
  <2>4. ASSUME NEW c \in Callers, Succeeds(c) PROVE Kept
    BY <2>1, <2>4
    DEF Succeeds, OpenStore, Switch, Load, RefreshTables, Query, Execute, ApproveTables,
        Relist, Running
  <2>5. ASSUME NEW c \in Callers, Fails(c) PROVE Kept
    BY <2>1, <2>5
    DEF Fails, OpenFails, ConnectTablesFail, LoadFails, ConnectLoadFails, RefreshLoadFails,
        ApproveLoadFails, RefreshTablesFail, QueryFails, ExecuteFails, ApproveTablesFail,
        Running
  <2>6. ASSUME NEW c \in Callers, Timeout(c) \/ CloseLocked(c) PROVE Kept
    BY <1>1, <2>6 DEF Timeout, CloseLocked
  <2>7. CASE Cancel \/ Lapse \/ Receive BY <1>1, <2>7 DEF Cancel, Lapse, Receive
  <2> QED BY <1>1, <2>2, <2>3, <2>4, <2>5, <2>6, <2>7 DEF Next, Step
<1>2. AppInvariant /\ [Next]_vars => [Kept]_vars BY <1>1
<1> QED BY <1>2, Invariance, PTL DEF Spec, QuietAfterClose

-----------------------------------------------------------------------------
(* Which steps change what is remembered, and which connection is shown *)

LEMMA ViewsKept ==
  ASSUME Next PROVE  UNCHANGED views \/ \E c \in Callers : Switch(c)
<1> USE DEF coreVars, writeVars
<1>1. ASSUME NEW c \in Callers, Call(c) \/ Timeout(c) \/ CloseLocked(c)
      PROVE  UNCHANGED views
  BY <1>1 DEF Call, TryLock, CloseCancel, Timeout, CloseLocked
<1>2. ASSUME NEW c \in Callers, Internal(c) PROVE UNCHANGED views
  BY <1>2
  DEF Internal, BeginClosed, Begin, AddProfile, Reject, Refuse, BrowseAction, StartConnect,
      StartRefresh, StartQuery, StageWrite, SetupCheck, ApproveRefused, ApproveChecked,
      Consume, Finish, Unlock
<1>3. ASSUME NEW c \in Callers, Succeeds(c), ~Switch(c) PROVE UNCHANGED views
  BY <1>3
  DEF Succeeds, OpenStore, Load, RefreshTables, Query, Execute, ApproveTables, Relist, Sent
<1>4. ASSUME NEW c \in Callers, Fails(c) PROVE UNCHANGED views
  BY <1>4
  DEF Fails, OpenFails, ConnectTablesFail, LoadFails, ConnectLoadFails, RefreshLoadFails,
      ApproveLoadFails, RefreshTablesFail, QueryFails, ExecuteFails, ApproveTablesFail, Sent
<1>5. CASE Cancel \/ Lapse \/ Receive BY <1>5 DEF Cancel, Lapse, Receive
<1> QED BY <1>1, <1>2, <1>3, <1>4, <1>5 DEF Next, Step

LEMMA ConnectionKept ==
  ASSUME AppInvariant, Next
  PROVE  state'.connection = state.connection \/ \E c \in Callers : Finish(c) /\ ~failed[c]
<1> USE DEF coreVars, writeVars
<1> DEFINE Kept == state'.connection = state.connection
<1>0. state \in SnapshotType BY DEF AppInvariant, TypeOK
<1>1. ASSUME NEW c \in Callers, Call(c) \/ Timeout(c) \/ CloseLocked(c)
      PROVE  Kept
  BY <1>1 DEF Call, TryLock, CloseCancel, Timeout, CloseLocked
<1>2. ASSUME NEW c \in Callers, Begin(c) PROVE Kept
  BY <1>0, <1>2, WithBusyShown DEF Begin, Publish
<1>3. ASSUME NEW c \in Callers, Reject(c) \/ Consume(c) PROVE Kept
  <2>1. state' = state \/ state' = [state EXCEPT !.pending = Nothing]
    BY <1>3 DEF Reject, Consume, Consumed, Publish
  <2>2. [state EXCEPT !.pending = Nothing].connection = state.connection
    BY <1>0, WithPendingShown DEF SnapshotType
  <2> QED BY <2>1, <2>2
<1>4. ASSUME NEW c \in Callers, AddProfile(c) PROVE Kept
  <2>1. req[c] \in RequestType BY <1>4, CallTyped DEF AddProfile, Holding
  <2>2. CASE Connectable(req[c].name)
    <3>1. req[c].name \in Names BY <2>1, <2>2 DEF Connectable, RequestType
    <3>2. state' = [state EXCEPT !.connections = Append(@, req[c].name)]
      BY <1>4, <2>2 DEF AddProfile, Publish
    <3> QED BY <1>0, <3>1, <3>2, WithProfilesShown
  <2>3. CASE ~Connectable(req[c].name) BY <1>4, <2>3 DEF AddProfile
  <2> QED BY <2>2, <2>3
<1>5. ASSUME NEW c \in Callers, Finish(c), failed[c] PROVE Kept
  BY <1>0, <1>5, WithBusyShown DEF Finish, Publish
<1>6. ASSUME NEW c \in Callers, Internal(c)
      PROVE  Kept \/ (Finish(c) /\ ~failed[c])
  BY <1>2, <1>3, <1>4, <1>5, <1>6
  DEF Internal, BeginClosed, Refuse, BrowseAction, StartConnect, StartRefresh, StartQuery,
      StageWrite, SetupCheck, ApproveRefused, ApproveChecked, Unlock
<1>7. ASSUME NEW c \in Callers, Succeeds(c) PROVE Kept
  BY <1>7
  DEF Succeeds, OpenStore, Switch, Load, RefreshTables, Query, Execute, ApproveTables,
      Relist, Sent
<1>8. ASSUME NEW c \in Callers, Fails(c) PROVE Kept
  BY <1>8
  DEF Fails, OpenFails, ConnectTablesFail, LoadFails, ConnectLoadFails, RefreshLoadFails,
      ApproveLoadFails, RefreshTablesFail, QueryFails, ExecuteFails, ApproveTablesFail, Sent
<1>9. CASE Cancel \/ Lapse \/ Receive BY <1>9 DEF Cancel, Lapse, Receive
<1> QED BY <1>1, <1>6, <1>7, <1>8, <1>9 DEF Next, Step

(* A connect saves the view of the connection it leaves. *)
LEMMA SwitchSaves ==
  ASSUME AppInvariant, ScreenInvariant, NEW c \in Callers, Switch(c), NEW n \in Names,
         views'[n] # views[n]
  PROVE  n = state.connection /\ views'[n] = state.browse
<1>1. pc[c] = "connect-tables" /\ pc[c] \in Running /\ views' = Saved(work[c])
  BY DEF Switch, Running
<1>2. work[c].connection = state.connection /\ work[c].browse = state.browse
  BY <1>1, AtConnectTables DEF ScreenInvariant, WorkFits
<1>3. views \in [Names -> BrowseType \cup {Nothing}] BY DEF AppInvariant, TypeOK
<1> QED BY <1>1, <1>2, <1>3 DEF Saved

(* Coming back to a connection shows the view that was saved. *)
LEMMA FinishRestores ==
  ASSUME AppInvariant, ScreenInvariant, NEW c \in Callers, Finish(c), ~failed[c],
         state'.connection # state.connection
  PROVE  /\ state.connection # Nothing => views[state.connection] = state.browse
         /\ LET kept == views[state'.connection]
            IN kept # Nothing /\ kept.table \in state'.tables => state'.browse = kept
<1>1. /\ pc[c] = "finish" /\ pc[c] \in Running
      /\ state' = [work[c] EXCEPT !.busy = FALSE]
  BY DEF Finish, Publish, Running
<1>2. SameShown(state', work[c]) BY <1>1, Alone, WithBusyShown DEF SameShown
<1>3. Switched(c)
  <2>1. Agrees(work[c]) /\ (~Switched(c) => Agrees(state)) BY <1>1, Alone
  <2> QED BY <1>2, <2>1 DEF Agrees, SameShown
<1> QED BY <1>1, <1>2, <1>3 DEF ScreenInvariant, WorkFits, Resumes, SameShown

(***************************************************************************)
(* A connection that is left and taken again is shown as it was left, as   *)
(* long as its table exists (App.views in connectProfile).                 *)
(***************************************************************************)
THEOREM ViewsComeBack == Spec => ViewsRemembered
<1> DEFINE Kept ==
      /\ \A n \in Names : views'[n] # views[n] =>
             n = state.connection /\ views'[n] = state.browse
      /\ state'.connection # state.connection =>
             /\ state.connection # Nothing => views[state.connection] = state.browse
             /\ LET kept == views[state'.connection]
                IN kept # Nothing /\ kept.table \in state'.tables
                     => state'.browse = kept
<1>1. ASSUME AppInvariant, ScreenInvariant, Next PROVE Kept
  <2>1. \A n \in Names : views'[n] # views[n] =>
            n = state.connection /\ views'[n] = state.browse
    BY <1>1, ViewsKept, SwitchSaves
  <2>2. ASSUME state'.connection # state.connection
        PROVE  /\ state.connection # Nothing => views[state.connection] = state.browse
               /\ LET kept == views[state'.connection]
                  IN kept # Nothing /\ kept.table \in state'.tables
                       => state'.browse = kept
    BY <1>1, <2>2, ConnectionKept, FinishRestores
  <2> QED BY <2>1, <2>2
<1>2. AppInvariant /\ ScreenInvariant /\ [Next]_vars => [Kept]_vars BY <1>1
<1> QED BY <1>2, ScreenInvariance, PTL DEF Spec, ViewsRemembered

-----------------------------------------------------------------------------
(* Where pages begin *)

LEMMA WholePages ==
  ASSUME NEW l \in Nat, NEW o \in Nat, 1 =< l, o % l = 0
  PROVE  \E k \in Nat : o = k * l
<1> DEFINE k == o \div l
<1>1. k \in Nat OBVIOUS
<1>2. o = l * k OBVIOUS
<1> HIDE DEF k
<1>3. o = k * l BY <1>1, <1>2
<1> QED BY <1>1, <1>3

LEMMA MultipleAligned ==
  ASSUME NEW l \in Nat, NEW k \in Nat, 1 =< l PROVE (k * l) % l = 0
OBVIOUS

LEMMA NextPage ==
  ASSUME NEW l \in Nat, NEW o \in Nat, 1 =< l, o % l = 0 PROVE (o + l) % l = 0
<1>1. PICK k \in Nat : o = k * l BY WholePages
<1>2. o + l = (k + 1) * l /\ k + 1 \in Nat BY <1>1
<1>3. ((k + 1) * l) % l = 0 BY <1>2, MultipleAligned
<1> QED BY <1>2, <1>3

LEMMA PreviousPage ==
  ASSUME NEW l \in Nat, NEW o \in Nat, 1 =< l, o % l = 0, l =< o PROVE (o - l) % l = 0
<1>1. PICK k \in Nat : o = k * l BY WholePages
<1>2. 1 =< k BY <1>1
<1>3. o - l = (k - 1) * l /\ k - 1 \in Nat BY <1>1, <1>2
<1>4. ((k - 1) * l) % l = 0 BY <1>3, MultipleAligned
<1> QED BY <1>3, <1>4

LEMMA FirstAligned ==
  ASSUME NEW b, b.offset = 0, b.limit \in Nat, 1 =< b.limit PROVE Aligned(b)
<1>1. 0 % b.limit = 0 OBVIOUS
<1> QED BY <1>1, PageAssumption DEF Aligned

LEMMA EmptyAligned ==
  /\ Aligned(EmptyBrowse)
  /\ \A view \in BrowseType : Aligned(FirstPage(Nothing, Nothing, view.limit))
<1>1. Aligned(EmptyBrowse)
  BY FirstAligned, PageAssumption DEF EmptyBrowse, FirstPage
<1>2. ASSUME NEW view \in BrowseType
      PROVE  Aligned(FirstPage(Nothing, Nothing, view.limit))
  <2>1. view.limit \in Nat /\ 1 =< view.limit BY PageAssumption DEF BrowseType
  <2> QED BY <2>1, FirstAligned DEF FirstPage
<1> QED BY <1>1, <1>2

(* What an action asks for starts at the top, or one page on from where it was. *)
LEMMA RequestedAligned ==
  ASSUME NEW s \in SnapshotType, NEW r \in RequestType, r.type \in BrowseActions,
         ~AtLastPage(s, r), ~Refusable(s, r), Aligned(s.browse)
  PROVE  Aligned(Requested(s, r))
<1> DEFINE b == s.browse
           n == Requested(s, r)
<1> SUFFICES Aligned(n) OBVIOUS
<1>1. b \in BrowseType /\ n \in BrowseType BY RequestedTyped DEF SnapshotType
<1>2. /\ b.offset \in Nat /\ b.limit \in Nat /\ 1 =< b.limit
      /\ n.offset \in Nat /\ n.limit \in Nat /\ 1 =< n.limit /\ n.offset =< MaxInt
  BY <1>1, PageAssumption DEF BrowseType
<1>3. CASE r.type = "next"
  <2>1. n.offset = b.offset + b.limit /\ n.limit = b.limit
    BY <1>1, <1>3 DEF Requested, BrowseType
  <2> HIDE DEF n
  <2>2. n.offset % n.limit = 0 BY <1>2, <2>1, NextPage DEF Aligned
  <2> QED BY <1>2, <2>2 DEF Aligned
<1>4. CASE r.type = "prev"
  <2>1. /\ n.offset = IF b.offset < b.limit THEN 0 ELSE b.offset - b.limit
        /\ n.limit = b.limit
    BY <1>1, <1>4 DEF Requested, BrowseType
  <2> HIDE DEF n
  <2>2. CASE b.offset < b.limit BY <1>2, <2>1, <2>2, FirstAligned
  <2>3. CASE ~(b.offset < b.limit)
    <3>1. n.offset % n.limit = 0 BY <1>2, <2>1, <2>3, PreviousPage DEF Aligned
    <3> QED BY <1>2, <3>1 DEF Aligned
  <2> QED BY <2>2, <2>3
<1>5. CASE r.type \notin {"next", "prev"}
  <2>1. n.offset = 0
    BY <1>1, <1>5 DEF Requested, FirstPage, FromTop, BrowseType, BrowseActions
  <2> HIDE DEF n
  <2> QED BY <1>2, <2>1, FirstAligned
<1> QED BY <1>3, <1>4, <1>5

(* Nothing is asked for, installed or saved. *)
LEMMA PagesHeld ==
  ASSUME PagesFit, state'.browse = state.browse, UNCHANGED <<views, work>>,
         \A d \in Callers : pc'[d] \in Running => pc[d] \in Running
  PROVE  PagesFit'
BY DEF PagesFit, PagesAligned, Aligned

(* An operation goes on with an aligned request. *)
LEMMA PagesWorked ==
  ASSUME AppInvariant, PagesFit, NEW c \in Callers, pc[c] \in Running,
         UNCHANGED <<state, views>>, NEW s, Aligned(s.browse),
         Return(c, s) \/ \E p \in Running : Goto(c, p, s)
  PROVE  PagesFit'
<1>1. work'[c] = s /\ \A d \in Callers : d # c => pc'[d] = pc[d] /\ work'[d] = work[d]
  BY Alone DEF Return, Goto
<1> QED BY <1>1 DEF PagesFit, PagesAligned, Aligned

LEMMA PagesHeldSteps ==
  ASSUME AppInvariant, PagesFit, NEW c \in Callers,
         \/ Call(c) \/ BeginClosed(c) \/ Unlock(c) \/ Timeout(c) \/ CloseLocked(c) \/ Cancel
         \/ Lapse \/ Receive \/ AddProfile(c) \/ Reject(c)
  PROVE  PagesFit'
<1> USE DEF AppInvariant, TypeOK, Running, coreVars, callVars
<1>1. CASE \/ Call(c) \/ BeginClosed(c) \/ Unlock(c) \/ Timeout(c) \/ CloseLocked(c) \/ Cancel
           \/ Lapse \/ Receive
  BY <1>1, PagesHeld
  DEF Call, TryLock, CloseCancel, BeginClosed, Unlock, Timeout, CloseLocked, Cancel, Lapse,
      Receive
<1>2. CASE AddProfile(c)
  <2>1. state'.browse = state.browse
    BY <1>2 DEF AddProfile, Publish, SnapshotType
  <2> QED BY <1>2, <2>1, PagesHeld DEF AddProfile
<1>3. CASE Reject(c)
  <2>1. state'.browse = state.browse BY <1>3 DEF Reject, Publish, SnapshotType
  <2> QED BY <1>3, <2>1, PagesHeld DEF Reject
<1> QED BY <1>1, <1>2, <1>3

LEMMA PagesFailedSteps ==
  ASSUME AppInvariant, PagesFit, NEW c \in Callers,
         \/ Refuse(c) \/ ApproveRefused(c) \/ OpenFails(c) \/ ConnectTablesFail(c)
         \/ LoadFails(c) \/ RefreshTablesFail(c) \/ QueryFails(c) \/ ExecuteFails(c)
  PROVE  PagesFit'
<1>1. pc[c] \in Running /\ Fail(c) /\ UNCHANGED <<state, views>>
  BY DEF Refuse, ApproveRefused, OpenFails, ConnectTablesFail, LoadFails,
         RefreshTablesFail, QueryFails, ExecuteFails, Sent, coreVars, Running
<1> QED BY <1>1, Alone, PagesHeld DEF Fail, Running

(* The working copy is kept as it is, but for what is not a browse request. *)
LEMMA PagesKeptSteps ==
  ASSUME AppInvariant, PagesFit, NEW c \in Callers,
         \/ StartConnect(c) \/ StartRefresh(c) \/ StartQuery(c) \/ SetupCheck(c)
         \/ ApproveChecked(c) \/ OpenStore(c) \/ Execute(c) \/ StageWrite(c) \/ Query(c)
         \/ RefreshLoadFails(c) \/ ApproveLoadFails(c) \/ ApproveTablesFail(c)
  PROVE  PagesFit'
<1> DEFINE kept(s) == /\ pc[c] \in Running /\ UNCHANGED <<state, views>>
                      /\ Return(c, s) \/ \E p \in Running : Goto(c, p, s)
<1> USE DEF coreVars, Accepted, Running
<1>1. CASE \/ StartConnect(c) \/ StartRefresh(c) \/ StartQuery(c) \/ ApproveChecked(c)
           \/ OpenStore(c) \/ Execute(c)
  <2>1. kept(work[c])
    BY <1>1 DEF StartConnect, StartRefresh, StartQuery, ApproveChecked, OpenStore, Execute, Sent
  <2>2. Aligned(work[c].browse) BY <2>1 DEF PagesFit
  <2> QED BY <2>1, <2>2, PagesWorked
<1>2. CASE SetupCheck(c)
  <2>1. CASE Fail(c) BY <1>2, <2>1, Alone, PagesHeld DEF Fail, SetupCheck
  <2>2. CASE Goto(c, "open", work[c])
    <3>1. kept(work[c]) BY <1>2, <2>2 DEF SetupCheck
    <3>2. Aligned(work[c].browse) BY <3>1 DEF PagesFit
    <3> QED BY <3>1, <3>2, PagesWorked
  <2> QED BY <1>2, <2>1, <2>2 DEF SetupCheck
<1>3. CASE \/ StageWrite(c) \/ Query(c)
           \/ RefreshLoadFails(c) \/ ApproveLoadFails(c) \/ ApproveTablesFail(c)
  <2>1. pc[c] \in Running
    BY <1>3 DEF StageWrite, Query, RefreshLoadFails, ApproveLoadFails, ApproveTablesFail
  <2>2. work[c] \in SnapshotType /\ Aligned(work[c].browse) BY <2>1, Alone DEF PagesFit
  <2>3. \E s : kept(s) /\ s.browse = work[c].browse
    <3>1. CASE StageWrite(c)
      <4>1. \A p : [work[c] EXCEPT !.pending = p].browse = work[c].browse
        BY <2>2 DEF SnapshotType
      <4>2. \E p : kept([work[c] EXCEPT !.pending = p]) BY <3>1, <2>1 DEF StageWrite
      <4> QED BY <4>1, <4>2
    <3>2. CASE Query(c)
      <4>1. \A x : [work[c] EXCEPT !.result = x, !.query = TRUE].browse = work[c].browse
        BY <2>2 DEF SnapshotType
      <4>2. \E x : kept([work[c] EXCEPT !.result = x, !.query = TRUE])
        BY <3>2, <2>1 DEF Query
      <4> QED BY <4>1, <4>2
    <3>3. CASE RefreshLoadFails(c) \/ ApproveLoadFails(c) \/ ApproveTablesFail(c)
      <4>1. \/ kept([work[c] EXCEPT !.result = Nothing, !.query = FALSE])
            \/ kept(Unshown(work[c]))
        BY <3>3, <2>1 DEF RefreshLoadFails, ApproveLoadFails, ApproveTablesFail
      <4> QED BY <2>2, <4>1, UnshownShown
    <3> QED BY <1>3, <3>1, <3>2, <3>3
  <2>4. PICK s : kept(s) /\ s.browse = work[c].browse BY <2>3
  <2>5. Aligned(s.browse) BY <2>2, <2>4
  <2> QED BY <2>4, <2>5, PagesWorked
<1> QED BY <1>1, <1>2, <1>3

LEMMA PagesBrowseAction ==
  ASSUME AppInvariant, PagesFit, NEW c \in Callers, BrowseAction(c) PROVE PagesFit'
<1> DEFINE r == req[c]
           w == work[c]
<1>1. /\ pc[c] \in Running /\ UNCHANGED <<state, views>>
      /\ r.type \in BrowseActions /\ ~Refusable(w, r)
  BY DEF BrowseAction, Accepted, coreVars, Running
<1>2. w \in SnapshotType /\ r \in RequestType /\ Aligned(w.browse)
  BY <1>1, Alone DEF PagesFit
<1>3. CASE AtLastPage(w, r)
  <2>1. Return(c, w) BY <1>3 DEF BrowseAction
  <2> QED BY <1>1, <1>2, <2>1, PagesWorked
<1>4. CASE ~AtLastPage(w, r)
  <2> DEFINE b == Requested(w, r)
             s == [w EXCEPT !.browse = b]
  <2>1. b \in BrowseType /\ Aligned(b)
    BY <1>1, <1>2, <1>4, RequestedTyped, RequestedAligned
  <2>2. s.browse = b BY <1>2, <2>1, WithBrowse
  <2>3. Goto(c, "load", s) BY <1>4 DEF BrowseAction
  <2> HIDE DEF s, b
  <2> QED BY <1>1, <2>1, <2>2, <2>3, PagesWorked DEF Running
<1> QED BY <1>3, <1>4

LEMMA PagesLoadSteps ==
  ASSUME AppInvariant, PagesFit, NEW c \in Callers, Load(c) \/ ConnectLoadFails(c)
  PROVE  PagesFit'
<1>1. /\ pc[c] = "load" /\ pc[c] \in Running /\ UNCHANGED <<state, views>>
      /\ \E s : /\ s = work[c] \/ \E more \in BOOLEAN : s = Loaded(work[c], more)
               /\ Return(c, WithProfile(req[c], s))
  BY DEF Load, ConnectLoadFails, Running
<1>2. /\ req[c] \in RequestType /\ work[c] \in SnapshotType /\ Aligned(work[c].browse)
      /\ store # Nothing /\ work[c].browse.table # Nothing
      /\ req[c].type = "setup" => req[c].name \in Names
  BY <1>1, AtLoad DEF PagesFit
<1>3. PICK s : /\ s = work[c] \/ \E more \in BOOLEAN : s = Loaded(work[c], more)
               /\ Return(c, WithProfile(req[c], s))
  BY <1>1
<1>4. s \in SnapshotType /\ s.browse = work[c].browse
  <2>1. CASE s = work[c] BY <1>2, <2>1
  <2>2. ASSUME NEW more \in BOOLEAN, s = Loaded(work[c], more)
        PROVE  s \in SnapshotType /\ s.browse = work[c].browse
    <3>1. s \in SnapshotType BY <1>1, <1>2, <2>2, LoadedTyped
    <3>2. s.browse = work[c].browse BY <1>2, <2>2 DEF Loaded, SnapshotType
    <3> QED BY <3>1, <3>2
  <2> QED BY <1>3, <2>1, <2>2
<1> DEFINE n == WithProfile(req[c], s)
<1>5. n.browse = s.browse BY <1>2, <1>4, WithProfileShown
<1>6. Return(c, n) BY <1>3
<1> HIDE DEF n
<1>7. Aligned(n.browse) BY <1>2, <1>4, <1>5
<1> QED BY <1>1, <1>6, <1>7, PagesWorked

LEMMA PagesRelist ==
  ASSUME AppInvariant, PagesFit, NEW c \in Callers, RefreshTables(c) \/ ApproveTables(c)
  PROVE  PagesFit'
<1>1. PICK p \in {"refresh-tables", "approve-tables"} : Relist(c, p)
  BY DEF RefreshTables, ApproveTables
<1>2. pc[c] \in Running /\ UNCHANGED <<state, views>> BY <1>1 DEF Relist, coreVars, Running
<1>3. work[c] \in SnapshotType /\ Aligned(work[c].browse) BY <1>2, Alone DEF PagesFit
<1>4. PICK tables \in SUBSET Tables :
        LET s == [work[c] EXCEPT !.tables = tables]
        IN IF s.browse.table \in tables THEN Goto(c, "load", s) ELSE Return(c, Emptied(s))
  BY <1>1 DEF Relist
<1> DEFINE s == [work[c] EXCEPT !.tables = tables]
<1>5. s \in SnapshotType /\ s.browse = work[c].browse BY <1>3 DEF SnapshotType
<1>6. Goto(c, "load", s) \/ Return(c, Emptied(s)) BY <1>4
<1> HIDE DEF s
<1>7. Aligned(s.browse) /\ Aligned(Emptied(s).browse)
  BY <1>3, <1>5, EmptiedShown, EmptyAligned
<1> QED BY <1>2, <1>6, <1>7, PagesWorked DEF Running

LEMMA PagesBegin ==
  ASSUME AppInvariant, PagesFit, NEW c \in Callers, Begin(c) \/ Finish(c) \/ Consume(c)
  PROVE  PagesFit'
<1>1. state \in SnapshotType /\ work \in [Callers -> SnapshotType \cup {Nothing}]
  BY DEF AppInvariant, TypeOK
<1>2. CASE Begin(c)
  <2>1. /\ state' = [state EXCEPT !.busy = TRUE] /\ work' = [work EXCEPT ![c] = state']
        /\ pc' = [pc EXCEPT ![c] = "perform"] /\ UNCHANGED views
    BY <1>2 DEF Begin, Publish
  <2>2. state'.browse = state.browse BY <1>1, <2>1, WithBusyShown
  <2>3. work'[c] = state' BY <1>1, <2>1
  <2> QED BY <1>1, <2>1, <2>2, <2>3 DEF PagesFit, PagesAligned, Aligned, AppInvariant, TypeOK
<1>3. CASE Finish(c)
  <2>1. /\ pc[c] = "finish" /\ pc[c] \in Running /\ UNCHANGED views
        /\ state' = [(IF failed[c] THEN state ELSE work[c]) EXCEPT !.busy = FALSE]
        /\ work' = [work EXCEPT ![c] = Nothing] /\ pc' = [pc EXCEPT ![c] = "unlock"]
    BY <1>3 DEF Finish, Publish, Running
  <2>2. work[c] \in SnapshotType BY <2>1, Alone
  <2>3. state'.browse = IF failed[c] THEN state.browse ELSE work[c].browse
    BY <1>1, <2>1, <2>2, WithBusyShown
  <2> QED BY <1>1, <2>1, <2>3, Alone
          DEF PagesFit, PagesAligned, Aligned, Running
<1>4. CASE Consume(c)
  <2>1. /\ pc[c] \in Running /\ UNCHANGED views /\ state' = Consumed(state)
        /\ Goto(c, "execute", Consumed(work[c]))
    BY <1>4 DEF Consume, Publish, Running
  <2>2. work[c] \in SnapshotType BY <2>1, Alone
  <2>3. state'.browse = state.browse /\ Consumed(work[c]).browse = work[c].browse
    BY <1>1, <2>1, <2>2 DEF Consumed, SnapshotType
  <2>4. work'[c].browse = work[c].browse
        /\ \A d \in Callers : d # c => pc'[d] = pc[d] /\ work'[d] = work[d]
    BY <2>1, <2>3, Alone DEF Goto
  <2> QED BY <2>1, <2>3, <2>4 DEF PagesFit, PagesAligned, Aligned
<1> QED BY <1>2, <1>3, <1>4

(* The view a connection is left with is saved, and comes back as it was. *)
LEMMA PagesSwitch ==
  ASSUME AppInvariant, PagesFit, NEW c \in Callers, Switch(c) PROVE PagesFit'
<1> DEFINE name == req[c].name
           w == work[c]
           kept == Saved(w)[name]
<1>1. pc[c] = "connect-tables" /\ pc[c] \in Running /\ views' = Saved(w) /\ UNCHANGED state
  BY DEF Switch, Running
<1>2. /\ w \in SnapshotType /\ req[c] \in RequestType /\ name \in Names
      /\ req[c].type \in {"connect", "setup"} /\ Aligned(w.browse)
      /\ views \in [Names -> BrowseType \cup {Nothing}]
      /\ Saved(w) \in [Names -> BrowseType \cup {Nothing}]
  BY <1>1, AtConnectTables, SavedTyped DEF PagesFit, AppInvariant, TypeOK
<1>3. \A n \in Names : Saved(w)[n] # Nothing => Aligned(Saved(w)[n])
  BY <1>2 DEF Saved, PagesFit, PagesAligned
<1>4. PICK tables \in SUBSET Tables :
        LET view == Restored(kept, tables)
        IN IF tables = {}
           THEN Return(c, WithProfile(req[c], Connected(w, name, tables, view)))
           ELSE \E first \in tables :
                  Goto(c, "load",
                       Connected(w, name, tables,
                                 [view EXCEPT !.table = IF @ = Nothing THEN first ELSE @]))
  BY DEF Switch
<1> DEFINE view == Restored(kept, tables)
<1>5. view \in BrowseType /\ Aligned(view)
  <2>1. kept \in BrowseType \cup {Nothing} /\ (kept # Nothing => Aligned(kept))
    BY <1>2, <1>3
  <2> HIDE DEF kept
  <2>2. view \in BrowseType BY <2>1, RestoredTyped
  <2>3. Aligned(view) BY <2>1, EmptyAligned DEF Restored
  <2> QED BY <2>2, <2>3
<1> HIDE DEF kept, view
<1>6. \E s : Aligned(s.browse) /\ (Return(c, s) \/ Goto(c, "load", s))
  <2>1. CASE tables = {}
    <3> DEFINE t == Connected(w, name, tables, view)
               s == WithProfile(req[c], t)
    <3>1. t \in SnapshotType /\ t.browse = view BY <1>2, <1>5, ConnectedTyped
    <3>2. Return(c, s) BY <1>4, <2>1 DEF view
    <3> HIDE DEF t
    <3>3. s.browse = view BY <1>2, <3>1, WithProfileShown
    <3> HIDE DEF s
    <3> QED BY <1>5, <3>2, <3>3
  <2>2. CASE tables # {}
    <3>1. PICK first \in tables :
            Goto(c, "load",
                 Connected(w, name, tables,
                           [view EXCEPT !.table = IF @ = Nothing THEN first ELSE @]))
      BY <1>4, <2>2 DEF view
    <3> DEFINE b == [view EXCEPT !.table = IF @ = Nothing THEN first ELSE @]
               s == Connected(w, name, tables, b)
    <3>2. /\ b \in BrowseType /\ b.offset = view.offset /\ b.limit = view.limit
      BY <1>5, NullAssumption DEF BrowseType
    <3>3. Goto(c, "load", s) BY <3>1
    <3> HIDE DEF b
    <3>4. s.browse = b BY <1>2, <3>2, ConnectedTyped
    <3>5. Aligned(b) BY <1>5, <3>2 DEF Aligned
    <3> HIDE DEF s
    <3> QED BY <3>3, <3>4, <3>5
  <2> QED BY <2>1, <2>2
<1>7. PICK s : Aligned(s.browse) /\ (Return(c, s) \/ Goto(c, "load", s)) BY <1>6
<1>8. work'[c] = s /\ \A d \in Callers : d # c => pc'[d] = pc[d] /\ work'[d] = work[d]
  BY <1>1, <1>7, Alone DEF Return, Goto
<1> QED BY <1>1, <1>3, <1>7, <1>8 DEF PagesFit, PagesAligned, Aligned

LEMMA PagesStep ==
  ASSUME AppInvariant, PagesFit, NEW c \in Callers, Step(c) PROVE PagesFit'
<1>1. CASE Internal(c)
  BY <1>1, PagesHeldSteps, PagesFailedSteps, PagesKeptSteps, PagesBrowseAction, PagesBegin
     DEF Internal
<1>2. CASE Succeeds(c)
  BY <1>2, PagesKeptSteps, PagesLoadSteps, PagesRelist, PagesSwitch DEF Succeeds
<1>3. CASE Fails(c)
  BY <1>3, PagesFailedSteps, PagesKeptSteps, PagesLoadSteps DEF Fails
<1>4. CASE Call(c) \/ Timeout(c) \/ CloseLocked(c) BY <1>4, PagesHeldSteps
<1> QED BY <1>1, <1>2, <1>3, <1>4 DEF Step

LEMMA PagesNext ==
  ASSUME AppInvariant, PagesFit, [Next]_vars PROVE PagesFit'
<1>1. CASE \E c \in Callers : Step(c) BY <1>1, PagesStep
<1>2. CASE Cancel
  <2>1. cancel \in Callers BY <1>2 DEF Cancel, AppInvariant, TypeOK
  <2> QED BY <1>2, <2>1, PagesHeldSteps
<1>3. CASE Lapse \/ Receive \/ UNCHANGED vars
  BY <1>3, PagesHeld DEF Lapse, Receive, vars, coreVars, callVars
<1> QED BY <1>1, <1>2, <1>3 DEF Next

(***************************************************************************)
(* Pages stay aligned for every page size and every largest int, however   *)
(* paging, resizing, filters and changes of connection are mixed           *)
(* (perform, browse and the views connectProfile saves and restores).      *)
(***************************************************************************)
THEOREM PagesStayAligned == Spec => []PagesAligned
<1>1. Init => PagesFit
  BY EmptyAligned DEF Init, PagesFit, PagesAligned, Running
<1>2. AppInvariant /\ PagesFit /\ [Next]_vars => PagesFit' BY PagesNext
<1>3. PagesFit => PagesAligned BY DEF PagesFit
<1> QED BY <1>1, <1>2, <1>3, Invariance, PTL DEF Spec
-----------------------------------------------------------------------------
(***************************************************************************)
(* App implements Feed.  What the interface can tell apart of a step is    *)
(* what the operation publishes and of what kind it is; the pending write  *)
(* of an operation is that of CopiesFit.                                   *)
(***************************************************************************)

(* What every step of App is to the interface. *)
Feeds == ViewsHeld' /\ (Interface!Next \/ UNCHANGED Interface!feedVars)

(* Of the calls that run, the one that App.cancel ends. *)
LEMMA OneRuns ==
  ASSUME AppInvariant, NEW c \in Callers, pc[c] \in Running
  PROVE  /\ cancel = c /\ c # Nothing
         /\ Underway = IF failed[c] THEN "failed" ELSE Role(c)
         /\ \A i \in WriteIds : Unseen(i) <=> Drafting(c) /\ work[c].pending.id = i
BY Alone, NullAssumption
DEF AppInvariant, OneOperation, Underway, Unseen, Drafting, Running

LEMMA NoneRuns ==
  ASSUME AppInvariant, \A c \in Callers : pc[c] \notin Running
  PROVE  /\ cancel = Nothing /\ Underway = "none" /\ \A i \in WriteIds : ~Unseen(i)
BY DEF AppInvariant, TypeOK, OneOperation, Underway, Unseen, Drafting, Running

(* A step between operations, or of the clock, that publishes nothing. *)
LEMMA Withheld ==
  ASSUME AppInvariant, ViewsHeld, UNCHANGED <<state, events, cancel, staged, work, failed>>,
         \A c \in Callers : \/ pc'[c] = pc[c] /\ req'[c] = req[c]
                            \/ pc[c] \notin Running /\ pc'[c] \notin Running
  PROVE  Feeds
<1>1. \A c \in Callers : /\ pc[c] \in Running <=> pc'[c] \in Running
                         /\ pc[c] \in Running => pc'[c] = pc[c] /\ req'[c] = req[c]
  OBVIOUS
<1>2. ViewsHeld' BY <1>1 DEF ViewsHeld, ViewOf
<1>3. \A c \in Callers : Drafting(c)' <=> Drafting(c) BY <1>1 DEF Drafting, Running
<1>4. \A i \in WriteIds : Unseen(i)' <=> Unseen(i) BY <1>3 DEF Unseen
<1>5. Underway' = Underway
  <2>1. CASE cancel = Nothing BY <2>1 DEF Underway
  <2>2. CASE cancel # Nothing
    <3>1. cancel \in Callers /\ pc[cancel] \in Running
      BY <2>2 DEF AppInvariant, TypeOK, OneOperation
    <3>2. Role(cancel)' = Role(cancel) BY <1>1, <3>1 DEF Role
    <3> QED BY <2>2, <3>2 DEF Underway
  <2> QED BY <2>1, <2>2
<1>6. Seen' = Seen BY <1>4 DEF Seen
<1>7. UNCHANGED Interface!feedVars BY <1>5, <1>6 DEF Interface!feedVars, Face, ViewOf
<1> QED BY <1>2, <1>7 DEF Feeds

LEMMA AsideFeeds ==
  ASSUME AppInvariant, ViewsHeld, NEW c \in Callers,
         \/ \E r \in Requests : TryLock(c, r) \/ CloseCancel(c, r)
         \/ BeginClosed(c) \/ Unlock(c) \/ Timeout(c) \/ Cancel \/ Lapse \/ CloseLocked(c)
         \/ UNCHANGED vars
  PROVE  Feeds
<1> USE DEF AppInvariant, TypeOK, Running, coreVars, callVars, writeVars
<1>1. CASE \E r \in Requests : TryLock(c, r) BY <1>1, Withheld DEF TryLock
<1>2. CASE \E r \in Requests : CloseCancel(c, r) BY <1>2, Withheld DEF CloseCancel
<1>3. CASE BeginClosed(c) \/ Unlock(c) BY <1>3, Withheld DEF BeginClosed, Unlock
<1>4. CASE Timeout(c) \/ Cancel BY <1>4, Withheld DEF Timeout, Cancel
<1>5. CASE Lapse BY <1>5, Withheld DEF Lapse
<1>6. CASE CloseLocked(c) BY <1>6, Withheld DEF CloseLocked
<1>7. CASE UNCHANGED vars BY <1>7, Withheld DEF vars
<1> QED BY <1>1, <1>2, <1>3, <1>4, <1>5, <1>6, <1>7

(* The operation goes on and publishes nothing. *)
Proceeds(c, p, s, b) ==
    /\ pc' = [pc EXCEPT ![c] = p]
    /\ work' = [work EXCEPT ![c] = s]
    /\ failed' = [failed EXCEPT ![c] = b]
    /\ UNCHANGED <<state, events, cancel, req>>

LEMMA ProceedsTo ==
  ASSUME AppInvariant, NEW c \in Callers, pc[c] \in Running \ {"finish"},
         NEW p \in Running, NEW s, NEW b \in BOOLEAN, Proceeds(c, p, s, b)
  PROVE  /\ pc'[c] = p /\ work'[c] = s /\ failed'[c] = b /\ ~failed[c]
         /\ \A d \in Callers : d # c =>
               pc[d] \notin Running /\ pc'[d] \notin Running
         /\ Underway = Role(c) /\ Underway' = IF b THEN "failed" ELSE Role(c)'
         /\ \A i \in WriteIds : ~Unseen(i) /\ (Unseen(i)' <=> Drafting(c)' /\ s.pending.id = i)
<1>1. /\ pc'[c] = p /\ work'[c] = s /\ failed'[c] = b /\ ~failed[c]
      /\ \A d \in Callers : d # c => pc[d] \notin Running /\ pc'[d] \notin Running
  BY Alone DEF Proceeds, CallOK
<1>2. cancel = c /\ c # Nothing /\ Underway = Role(c) BY <1>1, OneRuns
<1>3. Underway' = IF b THEN "failed" ELSE Role(c)' BY <1>1, <1>2 DEF Proceeds, Underway
<1>4. \A i \in WriteIds : ~Unseen(i) BY OneRuns DEF Drafting
<1>5. \A i \in WriteIds : Unseen(i)' <=> Drafting(c)' /\ s.pending.id = i
  BY <1>1 DEF Unseen, Drafting, Running
<1> QED BY <1>1, <1>2, <1>3, <1>4, <1>5

LEMMA FailFeeds ==
  ASSUME AppInvariant, NEW c \in Callers, pc[c] \in Running \ {"finish"}, Fail(c),
         UNCHANGED <<state, events, cancel, req, staged>>
  PROVE  Feeds
<1>1. Proceeds(c, "finish", work[c], TRUE)
  BY DEF Fail, Proceeds, AppInvariant, TypeOK
<1>2. /\ pc'[c] = "finish" /\ failed'[c] /\ cancel = c /\ c # Nothing
      /\ \A d \in Callers : d # c => pc'[d] \notin Running
      /\ Underway = Role(c) /\ Underway' = "failed"
      /\ \A i \in WriteIds : ~Unseen(i) /\ ~Unseen(i)'
  BY <1>1, ProceedsTo, OneRuns DEF Drafting, Running
<1>3. ViewsHeld' BY <1>2 DEF ViewsHeld
<1>4. Seen' = Seen BY <1>2 DEF Seen
<1>5. Underway # "none" BY <1>2 DEF Role
<1>6. Interface!GiveUp BY <1>2, <1>4, <1>5 DEF Interface!GiveUp, Face, ViewOf
<1> QED BY <1>3, <1>6 DEF Feeds, Interface!Next

(* It goes on as what it is, and keeps the view if it is not for looking. *)
LEMMA ProceedsFeeds ==
  ASSUME AppInvariant, ViewsHeld, NEW c \in Callers, pc[c] \in Running \ {"finish"},
         NEW p \in Running, NEW s, Goto(c, p, s) \/ (p = "finish" /\ Return(c, s)),
         UNCHANGED <<state, events, cancel, req, staged>>, req[c].type # "write",
         req[c].type = "setup-test" => s = work[c],
         req[c].type = "approve" =>
             (p \in {"perform", "approve"} <=> pc[c] \in {"perform", "approve"})
  PROVE  Feeds
<1>1. ~failed[c] /\ failed \in [Callers -> BOOLEAN] BY Alone DEF CallOK
<1>2. Proceeds(c, p, s, FALSE) BY <1>1 DEF Proceeds, Goto, Return
<1>3. /\ pc'[c] = p /\ work'[c] = s /\ ~failed'[c]
      /\ \A d \in Callers : d # c => pc'[d] \notin Running
      /\ Underway = Role(c) /\ Underway' = Role(c)'
      /\ \A i \in WriteIds : ~Unseen(i) /\ (Unseen(i)' <=> Drafting(c)' /\ s.pending.id = i)
  BY <1>2, ProceedsTo
<1>4. ViewsHeld' BY <1>1, <1>3 DEF ViewsHeld, ViewOf
<1>5. Underway' = Underway BY <1>3 DEF Role
<1>6. Seen' = Seen BY <1>3 DEF Seen, Drafting
<1>7. UNCHANGED Interface!feedVars BY <1>5, <1>6 DEF Interface!feedVars, Face, ViewOf
<1> QED BY <1>4, <1>7 DEF Feeds

(* Calls of the store are never part of staging a write or of a test. *)
LEMMA AnsweredFeeds ==
  ASSUME AppInvariant, CopiesFit, ViewsHeld, NEW c \in Callers,
         pc[c] \in {"connect-tables", "load", "refresh-tables", "query", "execute",
                    "approve-tables"},
         NEW p \in {"load", "approve-tables", "finish"},
         NEW s, Goto(c, p, s) \/ (p = "finish" /\ Return(c, s)),
         UNCHANGED <<state, events, cancel, req, staged>>
  PROVE  Feeds
<1>1. req[c].type # "write" BY NotStaging DEF Running
<1>2. req[c].type # "setup-test"
  BY Alone DEF Running, CallOK, Connecting, Testing, StorePoints
<1> QED BY <1>1, <1>2, ProceedsFeeds DEF Running

LEMMA SucceedsFeeds ==
  ASSUME AppInvariant, CopiesFit, ViewsHeld, NEW c \in Callers, Succeeds(c)
  PROVE  Feeds
<1> USE DEF coreVars, writeVars
<1>1. CASE OpenStore(c)
  <2>1. /\ pc[c] = "open" /\ UNCHANGED <<state, events, cancel, req, staged>>
        /\ IF Testing(req[c]) THEN Return(c, work[c]) ELSE Goto(c, "connect-tables", work[c])
    BY <1>1 DEF OpenStore
  <2>2. Connecting(req[c]) BY <2>1, Alone DEF Running, CallOK
  <2> QED BY <2>1, <2>2, ProceedsFeeds DEF Running, Connecting
<1>2. CASE Switch(c)
  <2>1. pc[c] = "connect-tables" /\ UNCHANGED <<state, events, cancel, req, staged>>
    BY <1>2 DEF Switch
  <2>2. \E s : Goto(c, "load", s) \/ Return(c, s) BY <1>2 DEF Switch
  <2> QED BY <2>1, <2>2, AnsweredFeeds
<1>3. CASE Load(c) BY <1>3, AnsweredFeeds DEF Load
<1>4. CASE RefreshTables(c) \/ ApproveTables(c)
  <2>1. PICK q \in {"refresh-tables", "approve-tables"} : Relist(c, q)
    BY <1>4 DEF RefreshTables, ApproveTables
  <2>2. \E s : Goto(c, "load", s) \/ Return(c, s) BY <2>1 DEF Relist
  <2> QED BY <2>1, <2>2, AnsweredFeeds DEF Relist
<1>5. CASE Query(c) BY <1>5, AnsweredFeeds DEF Query
<1>6. CASE Execute(c) BY <1>6, AnsweredFeeds DEF Execute, Sent
<1> QED BY <1>1, <1>2, <1>3, <1>4, <1>5, <1>6 DEF Succeeds

LEMMA FailsFeeds ==
  ASSUME AppInvariant, CopiesFit, ViewsHeld, NEW c \in Callers, Fails(c)
  PROVE  Feeds
<1> USE DEF coreVars, writeVars
<1>1. CASE \/ OpenFails(c) \/ ConnectTablesFail(c) \/ LoadFails(c) \/ RefreshTablesFail(c)
           \/ QueryFails(c) \/ ExecuteFails(c)
  BY <1>1, FailFeeds
  DEF OpenFails, ConnectTablesFail, LoadFails, RefreshTablesFail, QueryFails, ExecuteFails,
      Sent, Running
<1>2. CASE ConnectLoadFails(c) \/ RefreshLoadFails(c) \/ ApproveLoadFails(c)
  BY <1>2, AnsweredFeeds DEF ConnectLoadFails, RefreshLoadFails, ApproveLoadFails
<1>3. CASE ApproveTablesFail(c) BY <1>3, AnsweredFeeds DEF ApproveTablesFail
<1> QED BY <1>1, <1>2, <1>3 DEF Fails

LEMMA PerformFeeds ==
  ASSUME AppInvariant, ViewsHeld, NEW c \in Callers,
         \/ Refuse(c) \/ ApproveRefused(c) \/ SetupCheck(c) \/ ApproveChecked(c)
         \/ BrowseAction(c) \/ StartConnect(c) \/ StartRefresh(c) \/ StartQuery(c)
  PROVE  Feeds
<1> USE DEF coreVars, writeVars, Running, Accepted
<1>1. CASE Refuse(c) \/ ApproveRefused(c) BY <1>1, FailFeeds DEF Refuse, ApproveRefused
<1>2. CASE SetupCheck(c) BY <1>2, FailFeeds, ProceedsFeeds DEF SetupCheck
<1>3. CASE ApproveChecked(c) BY <1>3, ProceedsFeeds DEF ApproveChecked
<1>4. CASE BrowseAction(c)
  <2>1. \E s : Goto(c, "load", s) \/ Return(c, s) BY <1>4 DEF BrowseAction
  <2> QED BY <1>4, <2>1, ProceedsFeeds DEF BrowseAction, BrowseActions
<1>5. CASE StartConnect(c) \/ StartRefresh(c) \/ StartQuery(c)
  BY <1>5, ProceedsFeeds DEF StartConnect, StartRefresh, StartQuery
<1> QED BY <1>1, <1>2, <1>3, <1>4, <1>5

-----------------------------------------------------------------------------
(* Steps that publish *)

LEMMA FaceOf ==
  ASSUME NEW s \in SnapshotType
  PROVE  /\ ViewOf(s) \in ViewType
         /\ s.pending # Nothing => Face(s).pending \in WriteIds
         /\ Face(s).pending = Nothing <=> s.pending = Nothing
         /\ \A b \in BOOLEAN : Face([s EXCEPT !.busy = b]) = [Face(s) EXCEPT !.busy = b]
         /\ Face([s EXCEPT !.pending = Nothing]) = [Face(s) EXCEPT !.pending = Nothing]
<1>1. ViewOf(s) \in ViewType BY DEF ViewOf, ViewType, SnapshotType, BrowseType
<1>2. s.pending # Nothing => s.pending.id \in WriteIds BY DEF SnapshotType, WriteType
<1>3. \A b \in BOOLEAN : Face([s EXCEPT !.busy = b]) = [Face(s) EXCEPT !.busy = b]
  BY DEF Face, ViewOf, SnapshotType
<1>4. Face([s EXCEPT !.pending = Nothing]) = [Face(s) EXCEPT !.pending = Nothing]
  BY DEF Face, ViewOf, SnapshotType
<1> QED BY <1>1, <1>2, <1>3, <1>4, NullAssumption DEF Face

(* What waits in the slot is what was published last. *)
LEMMA Published ==
  ASSUME NEW s \in SnapshotType, Publish(s)
  PROVE  Interface!Publish(Face(s))
<1>1. events' # Nothing BY NullAssumption DEF Publish
<1> QED BY <1>1 DEF Publish, Interface!Publish, Face, ViewOf

LEMMA BeginFeeds ==
  ASSUME AppInvariant, NEW c \in Callers, Begin(c) PROVE Feeds
<1>1. /\ pc[c] = "locked" /\ req[c].type \in Operations /\ cancel' = c
      /\ Publish([state EXCEPT !.busy = TRUE])
      /\ work' = [work EXCEPT ![c] = state'] /\ pc' = [pc EXCEPT ![c] = "perform"]
      /\ failed' = [failed EXCEPT ![c] = FALSE] /\ UNCHANGED <<req, writeVars>>
  BY DEF Begin
<1>2. /\ state \in SnapshotType /\ pc \in [Callers -> Points] /\ failed \in [Callers -> BOOLEAN]
      /\ work \in [Callers -> SnapshotType \cup {Nothing}]
  BY DEF AppInvariant, TypeOK
<1>3. \A d \in Callers : pc[d] \notin Running BY <1>1, NoCopy
<1>4. /\ pc'[c] = "perform" /\ ~failed'[c] /\ work'[c] = state' /\ c # Nothing
      /\ \A d \in Callers : d # c => pc'[d] \notin Running
  BY <1>1, <1>2, <1>3, NullAssumption
<1>5. ViewsHeld' BY <1>4 DEF ViewsHeld, ViewOf
<1>6. Underway = "none" /\ \A i \in WriteIds : ~Unseen(i) BY <1>3, NoneRuns
<1>7. \A i \in WriteIds : ~Unseen(i)' BY <1>4 DEF Unseen, Drafting, Running
<1>8. Underway' \in Interface!Kinds
  BY <1>1, <1>4 DEF Underway, Role, Interface!Kinds, Operations, Dispatched, BrowseActions
<1>9. Seen' = Seen BY <1>1, <1>6, <1>7 DEF Seen, writeVars
<1>10. Interface!Publish([Face(state) EXCEPT !.busy = TRUE])
  <2>1. [state EXCEPT !.busy = TRUE] \in SnapshotType BY <1>2, WithBusy
  <2> QED BY <1>1, <1>2, <2>1, FaceOf, Published
<1>11. Interface!Begin BY <1>6, <1>8, <1>9, <1>10 DEF Interface!Begin
<1> QED BY <1>5, <1>11 DEF Feeds, Interface!Next

LEMMA StageWriteFeeds ==
  ASSUME AppInvariant, CopiesFit, ViewsHeld, NEW c \in Callers, StageWrite(c) PROVE Feeds
<1>1. /\ pc[c] = "perform" /\ pc[c] \in Running /\ req[c].type = "write" /\ ~failed[c]
      /\ work[c] \in SnapshotType /\ failed \in [Callers -> BOOLEAN]
      /\ UNCHANGED <<state, events, cancel, req>>
  BY Alone DEF StageWrite, Accepted, coreVars, Running, CallOK
<1>2. PICK i \in WriteIds :
        LET p == [id |-> i, connection |-> work[c].connection, sql |-> req[c].sql]
        IN  /\ staged[i] = Nothing /\ staged' = [staged EXCEPT ![i] = p]
            /\ Return(c, [work[c] EXCEPT !.pending = p])
  BY DEF StageWrite
<1> DEFINE p == [id |-> i, connection |-> work[c].connection, sql |-> req[c].sql]
           s == [work[c] EXCEPT !.pending = p]
<1>3. /\ staged[i] = Nothing /\ staged' = [staged EXCEPT ![i] = p] /\ Return(c, s)
      /\ p.id = i
  BY <1>2
<1> HIDE DEF p
<1>4. s.pending.id = i /\ ViewOf(s) = ViewOf(work[c])
  BY <1>1, <1>3 DEF SnapshotType, ViewOf
<1> HIDE DEF s
<1>5. Proceeds(c, "finish", s, FALSE) BY <1>1, <1>3 DEF Proceeds, Return
<1>6. /\ pc'[c] = "finish" /\ work'[c] = s /\ ~failed'[c]
      /\ \A d \in Callers : d # c => pc'[d] \notin Running
      /\ Underway = Role(c) /\ Underway' = Role(c)'
      /\ \A j \in WriteIds : ~Unseen(j) /\ (Unseen(j)' <=> Drafting(c)' /\ s.pending.id = j)
  BY <1>1, <1>5, ProceedsTo DEF Running
<1>7. Drafting(c)' BY <1>1, <1>6 DEF Drafting
<1>8. ViewsHeld' BY <1>1, <1>4, <1>6 DEF ViewsHeld, ViewOf
<1>9. Underway' = Underway BY <1>1, <1>6 DEF Role
<1>10. Seen' = Seen
  <2>1. staged \in [WriteIds -> WriteType \cup {Nothing}] BY DEF AppInvariant, TypeOK
  <2>2. \A j \in WriteIds : j # i => staged'[j] = staged[j] BY <1>3, <2>1
  <2>3. i \notin Seen /\ i \notin Seen' BY <1>3, <1>4, <1>6, <1>7 DEF Seen
  <2>4. \A j \in WriteIds : j # i => (j \in Seen' <=> j \in Seen)
    BY <1>4, <1>6, <2>2 DEF Seen
  <2> QED BY <2>3, <2>4 DEF Seen
<1>11. UNCHANGED Interface!feedVars
  BY <1>1, <1>9, <1>10 DEF Interface!feedVars, Face, ViewOf
<1> QED BY <1>8, <1>11 DEF Feeds

LEMMA ConsumeFeeds ==
  ASSUME AppInvariant, CopiesFit, ScreenInvariant, NEW c \in Callers, Consume(c)
  PROVE  Feeds
<1>1. /\ pc[c] = "approve" /\ pc[c] \in Running /\ Publish(Consumed(state))
      /\ Goto(c, "execute", Consumed(work[c]))
      /\ UNCHANGED <<req, cancel, staged>>
  BY DEF Consume, Running
<1>2. /\ work[c].pending = state.pending /\ state.pending # Nothing /\ state \in SnapshotType
      /\ ~failed[c] /\ cancel = c /\ c # Nothing /\ Underway = Role(c)
      /\ \A d \in Callers : d # c => pc[d] \notin Running
      /\ \A i \in WriteIds : ~Unseen(i)
  BY <1>1, Alone, OneRuns
  DEF CopiesFit, CopyFits, Drafting, Switched, CallOK, AppInvariant, TypeOK, Running
<1>3. req[c].type = "approve" BY <1>1, <1>2 DEF ScreenInvariant, WorkFits
<1>4. /\ pc'[c] = "execute" /\ ~failed'[c] /\ \A d \in Callers : d # c => pc'[d] \notin Running
  BY <1>1, <1>2, Alone DEF Goto
<1>5. ViewsHeld' BY <1>1, <1>3, <1>4 DEF ViewsHeld
<1>6. Underway = "approve" /\ Underway' = "approved"
  BY <1>1, <1>2, <1>3, <1>4 DEF Underway, Role
<1>7. \A i \in WriteIds : ~Unseen(i)' BY <1>4 DEF Unseen, Drafting, Running
<1>8. Seen' = Seen BY <1>1, <1>2, <1>7 DEF Seen
<1>9. Interface!Publish([Face(state) EXCEPT !.pending = Nothing])
  <2>1. Consumed(state) \in SnapshotType BY <1>2, WithPending DEF Consumed
  <2>2. Face(Consumed(state)) = [Face(state) EXCEPT !.pending = Nothing]
    BY <1>2, FaceOf DEF Consumed
  <2> QED BY <1>1, <2>1, <2>2, Published
<1>10. Face(state).pending # Nothing BY <1>2, FaceOf
<1>11. Interface!Consume BY <1>6, <1>8, <1>9, <1>10 DEF Interface!Consume
<1> QED BY <1>5, <1>11 DEF Feeds, Interface!Next

LEMMA RejectFeeds ==
  ASSUME AppInvariant, ViewsHeld, NEW c \in Callers, Reject(c) PROVE Feeds
<1>1. /\ pc[c] = "locked" /\ pc' = [pc EXCEPT ![c] = "unlock"]
      /\ UNCHANGED <<req, work, failed, cancel, staged>>
  BY DEF Reject
<1>2. pc \in [Callers -> Points] /\ state \in SnapshotType BY DEF AppInvariant, TypeOK
<1>3. /\ \A d \in Callers : pc[d] \notin Running
      /\ \A d \in Callers : pc'[d] \notin Running
  BY <1>1, <1>2, NoCopy DEF Running
<1>4. CASE UNCHANGED <<state, events>> BY <1>1, <1>3, <1>4, Withheld
<1>5. CASE ~UNCHANGED <<state, events>>
  <2>1. Publish([state EXCEPT !.pending = Nothing]) /\ state.pending # Nothing
    BY <1>5 DEF Reject
  <2>2. /\ Underway = "none" /\ Underway' = "none"
        /\ \A i \in WriteIds : ~Unseen(i) /\ ~Unseen(i)'
    <3>1. cancel = Nothing /\ Underway = "none" /\ \A i \in WriteIds : ~Unseen(i)
      BY <1>3, NoneRuns
    <3> QED BY <1>1, <1>3, <3>1 DEF Underway, Unseen, Drafting, Running
  <2>3. Seen' = Seen BY <1>1, <2>2 DEF Seen
  <2>4. ViewsHeld' BY <1>3 DEF ViewsHeld
  <2>5. [state EXCEPT !.pending = Nothing] \in SnapshotType BY <1>2, WithPending
  <2>6. Interface!Publish([Face(state) EXCEPT !.pending = Nothing])
    BY <1>2, <2>1, <2>5, FaceOf, Published
  <2>7. Face(state).pending # Nothing BY <1>2, <2>1, FaceOf
  <2>8. Interface!Reject BY <2>2, <2>3, <2>6, <2>7 DEF Interface!Reject
  <2> QED BY <2>4, <2>8 DEF Feeds, Interface!Next
<1> QED BY <1>4, <1>5

LEMMA AddProfileFeeds ==
  ASSUME AppInvariant, ViewsHeld, NEW c \in Callers, AddProfile(c) PROVE Feeds
<1>1. /\ pc[c] = "locked" /\ pc' = [pc EXCEPT ![c] = "unlock"]
      /\ UNCHANGED <<req, work, failed, cancel, staged>>
  BY DEF AddProfile, writeVars
<1>2. pc \in [Callers -> Points] /\ state \in SnapshotType BY DEF AppInvariant, TypeOK
<1>3. /\ \A d \in Callers : pc[d] \notin Running
      /\ \A d \in Callers : pc'[d] \notin Running
  BY <1>1, <1>2, NoCopy DEF Running
<1>4. CASE UNCHANGED <<state, events>> BY <1>1, <1>3, <1>4, Withheld
<1>5. CASE ~UNCHANGED <<state, events>>
  <2> DEFINE s == [state EXCEPT !.connections = Append(@, req[c].name)]
  <2>1. Publish(s) /\ Connectable(req[c].name) BY <1>5 DEF AddProfile
  <2>2. s \in SnapshotType /\ Face(s) = Face(state)
    <3>1. req[c].name \in Names
      BY <1>1, <2>1, CallTyped DEF Holding, Connectable, RequestType
    <3>2. state.connections \in Seq(Names) /\ Append(state.connections, req[c].name) \in Seq(Names)
      BY <1>2, <3>1 DEF SnapshotType
    <3>4. s \in SnapshotType
      <4>1. \A q \in Seq(Names) : [state EXCEPT !.connections = q] \in SnapshotType
        BY <1>2 DEF SnapshotType
      <4> QED BY <3>2, <4>1
    <3>3. /\ s.busy = state.busy /\ s.pending = state.pending /\ s.query = state.query
          /\ s.connection = state.connection /\ s.browse = state.browse
      BY <1>2 DEF SnapshotType
    <3> QED BY <3>4, <3>3 DEF Face, ViewOf
  <2> HIDE DEF s
  <2>3. /\ Underway = "none" /\ Underway' = "none"
        /\ \A i \in WriteIds : ~Unseen(i) /\ ~Unseen(i)'
    <3>1. cancel = Nothing /\ Underway = "none" /\ \A i \in WriteIds : ~Unseen(i)
      BY <1>3, NoneRuns
    <3> QED BY <1>1, <1>3, <3>1 DEF Underway, Unseen, Drafting, Running
  <2>4. Seen' = Seen BY <1>1, <2>3 DEF Seen
  <2>5. ViewsHeld' BY <1>3 DEF ViewsHeld
  <2>6. Interface!Publish(Face(state)) BY <2>1, <2>2, Published
  <2>7. Interface!Announce BY <2>3, <2>4, <2>6 DEF Interface!Announce
  <2> QED BY <2>5, <2>7 DEF Feeds, Interface!Next
<1> QED BY <1>4, <1>5

(* An operation that leaves s shown, as the one its kind allows, has ended. *)
LEMMA OutcomeOf ==
  ASSUME NEW b, NEW v, NEW w \in ViewType, NEW p, NEW q, NEW ids, NEW f, NEW s,
         f = [busy |-> b, view |-> v, pending |-> p],
         s = [busy |-> b, view |-> w, pending |-> q],
         NEW k \in {"dispatch", "setup", "test", "approved"},
         CASE k = "dispatch" -> q \in {p, Nothing}
           [] k = "setup" -> q = Nothing
           [] k = "test" -> s = f
           [] OTHER -> q = p
  PROVE  s \in Interface!Outcomes(k, f, ids)
<1> DEFINE g == [f EXCEPT !.pending = Nothing]
<1>1. g = [busy |-> b, view |-> v, pending |-> Nothing] OBVIOUS
<1> HIDE DEF g
<1>2. [f EXCEPT !.view = w] = [busy |-> b, view |-> w, pending |-> p] OBVIOUS
<1>3. [g EXCEPT !.view = w] = [busy |-> b, view |-> w, pending |-> Nothing] BY <1>1
<1>4. q = p => s \in Interface!Shown(f) BY <1>2 DEF Interface!Shown
<1>5. q = Nothing => s \in Interface!Connected(f)
  <2>1. q = Nothing => s \in Interface!Shown(g) BY <1>3 DEF Interface!Shown
  <2> QED BY <2>1 DEF Interface!Connected, g
<1>6. Interface!Outcomes(k, f, ids) =
        CASE k = "dispatch" -> Interface!Shown(f) \cup Interface!Connected(f)
          [] k = "setup" -> Interface!Connected(f)
          [] k = "test" -> {f}
          [] k = "approved" -> Interface!Shown(f)
  BY DEF Interface!Outcomes
<1> QED BY <1>4, <1>5, <1>6

LEMMA Finished ==
  ASSUME NEW n \in SnapshotType, Publish([n EXCEPT !.busy = FALSE]), NEW s,
         s = [busy |-> state.busy, view |-> ViewOf(n), pending |-> Face(n).pending],
         s \in Interface!Outcomes(Underway, Face(state), Seen) \cup {Face(state)},
         Underway # "none", Underway' = "none",
         Seen' = Seen \cup ({s.pending} \ {Nothing})
  PROVE  Interface!Finish
<1>1. PICK f : f = Face(n) OBVIOUS
<1>2. f = [busy |-> n.busy, view |-> ViewOf(n), pending |-> Face(n).pending]
  BY <1>1 DEF Face
<1>3. ASSUME NEW d PROVE [f EXCEPT !.busy = d] = [s EXCEPT !.busy = d]
  <2>1. PICK v, p : v = ViewOf(n) /\ p = Face(n).pending OBVIOUS
  <2>2. f = [busy |-> n.busy, view |-> v, pending |-> p] BY <1>2, <2>1
  <2>3. s = [busy |-> state.busy, view |-> v, pending |-> p] BY <2>1
  <2>4. [f EXCEPT !.busy = d] = [busy |-> d, view |-> v, pending |-> p] BY <2>2, SMTT(30)
  <2>5. [s EXCEPT !.busy = d] = [busy |-> d, view |-> v, pending |-> p] BY <2>3, SMTT(30)
  <2> QED BY <2>4, <2>5
<1>4. [f EXCEPT !.busy = FALSE] = [s EXCEPT !.busy = FALSE] BY <1>3, Zenon
<1>5. Interface!Publish([s EXCEPT !.busy = FALSE])
  <2>1. [n EXCEPT !.busy = FALSE] \in SnapshotType BY WithBusy
  <2>2. Face([n EXCEPT !.busy = FALSE]) = [f EXCEPT !.busy = FALSE] BY <1>1, FaceOf
  <2> QED BY <2>1, <2>2, <1>4, Published
<1> QED BY <1>5 DEF Interface!Finish

(* What the operation made of the snapshot is what its kind may make of it. *)
LEMMA FinishFeeds ==
  ASSUME AppInvariant, CopiesFit, ViewsHeld, NEW c \in Callers, Finish(c) PROVE Feeds
<1>1. /\ pc[c] = "finish" /\ pc[c] \in Running /\ pc' = [pc EXCEPT ![c] = "unlock"]
      /\ cancel' = Nothing
      /\ Publish([(IF failed[c] THEN state ELSE work[c]) EXCEPT !.busy = FALSE])
      /\ UNCHANGED <<req, staged>>
  BY DEF Finish, Running, writeVars
<1>2. /\ state \in SnapshotType /\ work[c] \in SnapshotType
      /\ \A d \in Callers : pc'[d] \notin Running
  BY <1>1, Alone DEF AppInvariant, TypeOK, Running
<1>3. /\ cancel = c /\ c # Nothing /\ Underway = IF failed[c] THEN "failed" ELSE Role(c)
      /\ \A i \in WriteIds : Unseen(i) <=> Drafting(c) /\ work[c].pending.id = i
  BY <1>1, OneRuns
<1>4. Underway' = "none" /\ \A i \in WriteIds : ~Unseen(i)'
  BY <1>1, <1>2 DEF Underway, Unseen, Drafting, Running
<1>5. ViewsHeld' BY <1>2 DEF ViewsHeld
<1>6. Underway # "none" BY <1>3 DEF Role
<1>0. PICK n \in SnapshotType : n = IF failed[c] THEN state ELSE work[c] BY <1>2
<1> DEFINE p == IF n.pending = Nothing THEN Nothing ELSE n.pending.id
           s == [busy |-> state.busy, view |-> ViewOf(n), pending |-> p]
<1>7. /\ s = [busy |-> state.busy, view |-> ViewOf(n), pending |-> Face(n).pending]
      /\ ViewOf(n) \in ViewType /\ Publish([n EXCEPT !.busy = FALSE])
  BY <1>0, <1>1, FaceOf DEF Face
<1>8. CASE failed[c]
  <2>1. s = Face(state) BY <1>0, <1>8 DEF Face
  <2>2. ~Drafting(c) BY <1>8 DEF Drafting
  <2>3. Seen' = Seen BY <1>1, <1>3, <1>4, <2>2 DEF Seen
  <2>4. s.pending # Nothing => s.pending \in Seen
    <3>1. state.pending # Nothing =>
            s.pending = state.pending.id /\ s.pending \in WriteIds
      BY <1>2, <2>1, FaceOf DEF Face
    <3>2. state.pending # Nothing => staged[state.pending.id] = state.pending
      BY DEF AppInvariant, WritesOK, Open
    <3>3. \A i \in WriteIds : ~Unseen(i) BY <1>3, <2>2
    <3> QED BY <1>0, <1>8, <2>1, <3>1, <3>2, <3>3, NullAssumption DEF Seen
  <2> HIDE DEF s
  <2>5. Interface!Finish BY <1>4, <1>6, <1>7, <2>1, <2>3, <2>4, Finished
  <2> QED BY <1>5, <2>5 DEF Feeds, Interface!Next
<1>9. CASE ~failed[c]
  <2>1. /\ n = work[c] /\ Underway = Role(c) /\ Role(c) # "approve"
        /\ n.pending # Nothing =>
              /\ n.pending.id \in WriteIds /\ staged[n.pending.id] = n.pending
    <3>1. n = work[c] /\ Underway = Role(c) /\ Role(c) # "approve" BY <1>0, <1>1, <1>3, <1>9 DEF Role
    <3>2. n.pending # Nothing => n.pending.id \in WriteIds
      BY DEF SnapshotType, WriteType
    <3>3. n.pending # Nothing => staged[n.pending.id] = n.pending
      BY <1>1, <3>1 DEF AppInvariant, WritesOK, Open
    <3> QED BY <3>1, <3>2, <3>3
  <2>2. Face(state) = [busy |-> state.busy, view |-> ViewOf(state),
                       pending |-> IF state.pending = Nothing THEN Nothing
                                   ELSE state.pending.id]
    BY DEF Face
  <2>3. CASE req[c].type = "write"
    <3>1. /\ Drafting(c) /\ n.pending # Nothing /\ ViewOf(n) = ViewOf(state)
          /\ Underway = "write"
      BY <1>1, <1>9, <2>1, <2>3 DEF Drafting, CopiesFit, CopyFits, ViewsHeld, Role
    <3>2. s.pending = n.pending.id /\ s = [Face(state) EXCEPT !.pending = s.pending]
      BY <2>2, <3>1
    <3>3. \A i \in WriteIds : Unseen(i) <=> i = s.pending BY <1>3, <2>1, <3>1, <3>2
    <3>4. s.pending \in WriteIds \ Seen BY <2>1, <3>1, <3>2, <3>3 DEF Seen
    <3>5. s \in Interface!Outcomes(Underway, Face(state), Seen)
      BY <3>1, <3>2, <3>4 DEF Interface!Outcomes
    <3>6. Seen' = Seen \cup ({s.pending} \ {Nothing})
      <4>1. staged[s.pending] # Nothing /\ s.pending # Nothing BY <2>1, <3>1, <3>2, <3>4, NullAssumption
      <4>2. \A i \in WriteIds : i \in Seen' <=> i \in Seen \/ i = s.pending
        BY <1>1, <1>4, <3>3, <4>1 DEF Seen
      <4> QED BY <3>4, <4>1, <4>2 DEF Seen
    <3> HIDE DEF s
    <3>7. Interface!Finish BY <1>4, <1>6, <1>7, <3>5, <3>6, Finished
    <3> QED BY <1>5, <3>7 DEF Feeds, Interface!Next
  <2>4. CASE req[c].type # "write"
    <3>1. /\ ~Drafting(c) /\ n.pending = IF Switched(c) THEN Nothing ELSE state.pending
          /\ req[c].type = "setup-test" => ViewOf(n) = ViewOf(state)
          /\ \A i \in WriteIds : ~Unseen(i)
      BY <1>1, <1>3, <1>9, <2>1, <2>4 DEF Drafting, CopiesFit, CopyFits, ViewsHeld
    <3>2. Seen' = Seen \cup ({s.pending} \ {Nothing})
      <4>1. Seen' = Seen BY <1>1, <1>4, <3>1 DEF Seen
      <4>2. s.pending # Nothing => s.pending \in Seen BY <2>1, <3>1, NullAssumption DEF Seen
      <4> QED BY <4>1, <4>2
    <3>3. s \in Interface!Outcomes(Underway, Face(state), Seen)
      <4>1. Underway \in {"dispatch", "setup", "test", "approved"} BY <2>1, <2>4 DEF Role
      <4> DEFINE was == IF state.pending = Nothing THEN Nothing ELSE state.pending.id
      <4>2. p = IF Switched(c) THEN Nothing ELSE was BY <3>1
      <4>3. Switched(c) <=> Underway = "setup" \/ (Underway = "dispatch" /\ Switched(c))
        BY <1>1, <1>9, <2>1 DEF Role, Switched
      <4>4. Underway = "test" => s = Face(state)
        <5>1. ASSUME Underway = "test" PROVE ViewOf(n) = ViewOf(state) /\ p = was
          BY <2>1, <3>1, <4>2, <4>3, <5>1 DEF Role
        <5> QED BY <2>2, <5>1
      <4>5. /\ Underway = "dispatch" => p \in {was, Nothing}
            /\ Underway = "setup" => p = Nothing
            /\ Underway = "approved" => p = was
        BY <4>2, <4>3
      <4> HIDE DEF s, p, was
      <4>6. s = [busy |-> state.busy, view |-> ViewOf(n), pending |-> p] BY DEF s
      <4>7. Face(state) = [busy |-> state.busy, view |-> ViewOf(state), pending |-> was]
        BY <2>2 DEF was
      <4> QED BY <1>7, <4>1, <4>4, <4>5, <4>6, <4>7, OutcomeOf
    <3> HIDE DEF s
    <3>4. Interface!Finish BY <1>4, <1>6, <1>7, <3>2, <3>3, Finished
    <3> QED BY <1>5, <3>4 DEF Feeds, Interface!Next
  <2> QED BY <2>3, <2>4
<1> QED BY <1>8, <1>9
-----------------------------------------------------------------------------
(* The refinement *)

LEMMA ReceiveFeeds ==
  ASSUME AppInvariant, ViewsHeld, Receive PROVE Feeds
<1>1. /\ UNCHANGED <<state, cancel, pc, req, work, failed, staged>>
      /\ events # Nothing /\ events' = Nothing
  BY DEF Receive, callVars, writeVars
<1>2. ViewsHeld' BY <1>1 DEF ViewsHeld, ViewOf
<1>3. Underway' = Underway /\ Seen' = Seen /\ Face(state)' = Face(state)
  BY <1>1 DEF Underway, Role, Seen, Unseen, Drafting, Face, ViewOf
<1>4. Interface!Receive BY <1>1, <1>3 DEF Interface!Receive
<1> QED BY <1>2, <1>4 DEF Feeds, Interface!Next

LEMMA StepFeeds ==
  ASSUME AppInvariant, CopiesFit, ScreenInvariant, ViewsHeld, NEW c \in Callers, Step(c)
  PROVE  Feeds
<1>1. CASE Call(c) BY <1>1, AsideFeeds DEF Call
<1>2. CASE Internal(c)
  BY <1>2, AsideFeeds, BeginFeeds, AddProfileFeeds, RejectFeeds, PerformFeeds,
     StageWriteFeeds, ConsumeFeeds, FinishFeeds
     DEF Internal
<1>3. CASE Succeeds(c) BY <1>3, SucceedsFeeds
<1>4. CASE Fails(c) BY <1>4, FailsFeeds
<1>5. CASE Timeout(c) \/ CloseLocked(c) BY <1>5, AsideFeeds
<1> QED BY <1>1, <1>2, <1>3, <1>4, <1>5 DEF Step

LEMMA NextFeeds ==
  ASSUME AppInvariant, CopiesFit, ScreenInvariant, ViewsHeld, [Next]_vars PROVE Feeds
<1>1. CASE \E c \in Callers : Step(c) BY <1>1, StepFeeds
<1>2. CASE Cancel \/ Lapse \/ UNCHANGED vars
  <2>1. UNCHANGED <<state, events, cancel, staged, work, failed, pc, req>>
    BY <1>2 DEF Cancel, Lapse, vars, coreVars, callVars, writeVars
  <2> QED BY <2>1, Withheld
<1>3. CASE Receive BY <1>3, ReceiveFeeds
<1> QED BY <1>1, <1>2, <1>3 DEF Next

LEMMA InitFeeds ==
  ASSUME Init PROVE ViewsHeld /\ Interface!Init
<1>1. ViewsHeld BY DEF Init, ViewsHeld, Running
<1>2. AppInvariant /\ state \in SnapshotType BY InitOK DEF AppInvariant, TypeOK
<1>3. \A c \in Callers : pc[c] = "idle" BY DEF Init
<1>4. Underway = "none" /\ \A i \in WriteIds : ~Unseen(i)
  BY <1>2, <1>3, NoneRuns DEF Running
<1>5. Seen = {} BY DEF Init, Seen
<1>6. Face(state) \in [busy : {FALSE}, pending : {Nothing}, view : ViewType]
  BY <1>2, FaceOf DEF Init, Face
<1>7. events = Nothing \/ events = state BY DEF Init
<1> QED BY <1>1, <1>4, <1>5, <1>6, <1>7 DEF Interface!Init

(***************************************************************************)
(* App keeps the promise that the interface is built on: however calls,    *)
(* timeouts and failures of the database interleave, an operation          *)
(* publishes when it begins and ends, and changes only what its kind may   *)
(* change (begin, perform, Setup, Approve, Reject, finish).                *)
(***************************************************************************)
THEOREM InterfaceIsFed == Spec => FeedsInterface
<1>1. Init => CopiesFit /\ ViewsHeld /\ Interface!Init BY InitFollows, InitFeeds
<1>2. /\ AppInvariant /\ ScreenInvariant /\ CopiesFit /\ ViewsHeld /\ [Next]_vars
      => (CopiesFit /\ ViewsHeld)' /\ [Interface!Next]_Interface!feedVars
  BY NextFollows, NextFeeds DEF Follows, Feeds
<1> QED BY <1>1, <1>2, ScreenInvariance, PTL DEF Spec, FeedsInterface, Interface!Spec
=============================================================================
